---- MODULE Spec2Model ----
(***************************************************************************)
(* A model of go-poly: polymorphic JSON arrays decoded into a container    *)
(* struct (UnmarshalCustom and its helpers) one statement group at a time. *)
(***************************************************************************)
EXTENDS Integers, Sequences, FiniteSets, TLC

\* Longest input array explored.
MaxLen == 3

(***************************************************************************)
(* JSON documents.  A JSON value is absent, a string or a number; an       *)
(* array element is the literal null or an object (a map from keys to      *)
(* values); raw input is a byte slice of one of six shapes.                *)
(***************************************************************************)
JAbsent == [t |-> "absent", s |-> "", n |-> 0]
JStr(s) == [t |-> "str", s |-> s, n |-> 0]
JNum(n) == [t |-> "num", s |-> "", n |-> n]

JNull == [isNull |-> TRUE, fields |-> <<>>]
JObj(m) == [isNull |-> FALSE, fields |-> m]

Get(e, k) == IF k \in DOMAIN e.fields THEN e.fields[k] ELSE JAbsent

\* The elements the input arrays are built from.
Elements ==
  { JObj("type" :> JStr("TypeString") @@ "ValueA" :> JStr("x")),
    JObj("type" :> JStr("TypeString") @@ "ValueA" :> JStr("y")),
    JObj("@type" :> JStr("TypeFloat") @@ "ValueB" :> JNum(42)),
    JObj("Type" :> JStr("TypeInt") @@ "ValueC" :> JNum(105)),
    JObj("@Type" :> JStr("TypeIntP") @@ "ValueC" :> JNum(123)),
    JObj("ValueA" :> JStr("x")),
    JObj("type" :> JStr("TypeBravo") @@ "ValueB" :> JNum(42)),
    JObj("type" :> JStr("TypeString") @@ "ValueA" :> JNum(42)),
    JObj("type" :> JNum(42)),
    JObj("type" :> JStr("TypeInt") @@ "@type" :> JStr("TypeString")
         @@ "Type" :> JStr("TypeFloat") @@ "@Type" :> JStr("TypeIntP")
         @@ "ValueC" :> JNum(7)),
    JNull }

\* Every combination of the four discriminator keys, for one-element arrays.
LocatorTags == {JAbsent, JStr("TypeString"), JStr("TypeInt"), JStr("Other")}
LocatorElements ==
  { JObj("type" :> a @@ "@type" :> b @@ "Type" :> c @@ "@Type" :> d
         @@ "ValueA" :> JStr("x") @@ "ValueC" :> JNum(105)) :
      a \in LocatorTags, b \in LocatorTags, c \in LocatorTags, d \in LocatorTags }

JArray(es) == [kind |-> "array", elems |-> es]
JRaw(k) == [kind |-> k, elems |-> <<>>]

\* nil, []byte{}, `not valid JSON`, `null`, `{}`, and arrays.
RawInputs ==
  {JRaw("nil"), JRaw("empty"), JRaw("invalid"), JRaw("null"), JRaw("object")}
  \cup {JArray(es) : es \in UNION {[1..k -> Elements] : k \in 0..MaxLen}}
  \cup {JArray(<<e>>) : e \in LocatorElements}

\* len(rawJson)
RawLen(raw) == IF raw.kind \in {"nil", "empty"} THEN 0 ELSE 1

(***************************************************************************)
(* Go types.  A type is a sequence of constructors ending in a struct      *)
(* name: <<"slice", "ptr", "TypeInt">> is []*TypeInt.                      *)
(***************************************************************************)
Kind(T) == IF Head(T) \in {"slice", "ptr"} THEN Head(T) ELSE "struct"
Elem(T) == Tail(T)

\* The variant structs of the test suite and the methods of their pointers.
\* Item is a variant that carries its tag in its own JSON, as the README's
\* JsonObject does: struct { Type string `json:"type"`; ValueC int; index int },
\* with the two index methods of TypeInt.
ZeroStruct(name) ==
  [ty |-> name, Type |-> "", ValueA |-> "", ValueB |-> 0, ValueC |-> 0,
   index |-> 0]
PtrMethods(name) ==
  IF name \in {"TypeInt", "Item"} THEN {"SetIndex", "GetIndex"} ELSE {}
\* Methods declared on the value receiver: no variant declares one.
ValueMethods(name) == {}

\* reflect.Zero: a nil slice, a nil pointer, a zeroed struct.
Zero(T) == IF Kind(T) = "struct" THEN ZeroStruct(Head(T)) ELSE <<>>

\* type SlicesABC struct: name, poly tag (if any) and type of each field.
NoTag == "<none>"
SlicesABC ==
  << [name |-> "TypeString", poly |-> NoTag, type |-> <<"slice", "TypeString">>],
     [name |-> "TypeBravo", poly |-> "TypeFloat", type |-> <<"slice", "TypeFloat">>],
     [name |-> "TypeInt", poly |-> NoTag, type |-> <<"TypeInt">>],
     [name |-> "TypeIntP", poly |-> NoTag, type |-> <<"ptr", "TypeInt">>] >>

\* A container with one slot of each kind for Item: a slice of values, a
\* slice of pointers, a value and a pointer.
ItemSlots ==
  << [name |-> "Items", poly |-> "item", type |-> <<"slice", "Item">>],
     [name |-> "ItemPs", poly |-> "itemp", type |-> <<"slice", "ptr", "Item">>],
     [name |-> "One", poly |-> "one", type |-> <<"Item">>],
     [name |-> "OneP", poly |-> "onep", type |-> <<"ptr", "Item">>] >>

\* The struct the target points to, or is.
TargetFields == SlicesABC
NumField == Len(TargetFields)

\* What the caller passes as target: &container, container, or a pointer to
\* something that is not a struct.
TargetKinds == {"ptr", "value", "ptrNonStruct"}

\* What the caller passes as typeLocator: DefaultLocator or reflect.TypeOf("").
Locators == {"GenericTypeLocator", "string"}

(***************************************************************************)
(* The default resolver.                                                   *)
(***************************************************************************)
\* len() of a string: tags are atoms here, and only emptiness is ever asked.
StrLen(s) == IF s = "" THEN 0 ELSE 1

\* As TypeName, with "Type" looked at before "@type".
TypeNameSwapped(t) ==
  IF StrLen(t.Type) > 0 THEN t.Type
  ELSE IF StrLen(t.TypeCaps) > 0 THEN t.TypeCaps
  ELSE IF StrLen(t.TypeAt) > 0 THEN t.TypeAt
  ELSE IF StrLen(t.TypeAtCaps) > 0 THEN t.TypeAtCaps
  ELSE ""

\* func (t *GenericTypeLocator) TypeName() string
TypeName(t) ==
  IF StrLen(t.Type) > 0 THEN t.Type
  ELSE IF StrLen(t.TypeAt) > 0 THEN t.TypeAt
  ELSE IF StrLen(t.TypeCaps) > 0 THEN t.TypeCaps
  ELSE IF StrLen(t.TypeAtCaps) > 0 THEN t.TypeAtCaps
  ELSE ""

(***************************************************************************)
(* encoding/json, as far as the decoder uses it.  A result is a record     *)
(* [err, val]; a pointer is a sequence of length 0 (nil) or 1.             *)
(***************************************************************************)
\* A JSON value into a string field / a numeric field.
DecodeStr(cur, j) ==
  [err |-> j.t = "num", val |-> IF j.t = "str" THEN j.s ELSE cur]
DecodeNum(cur, j) ==
  [err |-> j.t = "str", val |-> IF j.t = "num" THEN j.n ELSE cur]

\* One array element into a *GenericTypeLocator (keys by their json tags) or
\* into a *string.
UnmarshalProbe(e, locator) ==
  IF e.isNull THEN [err |-> FALSE, val |-> <<>>]
  ELSE IF locator = "GenericTypeLocator" THEN
    LET a == DecodeStr("", Get(e, "type"))
        b == DecodeStr("", Get(e, "@type"))
        c == DecodeStr("", Get(e, "Type"))
        d == DecodeStr("", Get(e, "@Type"))
    IN [err |-> a.err \/ b.err \/ c.err \/ d.err,
        val |-> << [Type |-> a.val, TypeAt |-> b.val,
                    TypeCaps |-> c.val, TypeAtCaps |-> d.val] >>]
  ELSE [err |-> TRUE, val |-> <<>>]

\* As UnmarshalProbes, with the error of an element dropped.
UnmarshalProbesUnchecked(raw, locator) ==
  IF raw.kind = "null" THEN [err |-> FALSE, val |-> <<>>]
  ELSE IF raw.kind # "array" THEN [err |-> TRUE, val |-> <<>>]
  ELSE [err |-> FALSE,
        val |-> [k \in 1..Len(raw.elems) |->
                   IF raw.elems[k].isNull THEN <<>>
                   ELSE << [Type |-> "", TypeAt |-> "", TypeCaps |-> "",
                            TypeAtCaps |-> ""] >>]]

\* json.Unmarshal(rawJson, &[]*locator)
UnmarshalProbes(raw, locator) ==
  IF raw.kind = "null" THEN [err |-> FALSE, val |-> <<>>]
  ELSE IF raw.kind # "array" THEN [err |-> TRUE, val |-> <<>>]
  ELSE LET ps == [k \in 1..Len(raw.elems) |-> UnmarshalProbe(raw.elems[k], locator)]
       IN [err |-> \E k \in 1..Len(raw.elems) : ps[k].err,
           val |-> [k \in 1..Len(raw.elems) |-> ps[k].val]]

\* As UnmarshalRaws, with the null elements left out.
RECURSIVE WithoutNulls(_)
WithoutNulls(es) ==
  IF es = <<>> THEN <<>>
  ELSE IF Head(es).isNull THEN WithoutNulls(Tail(es))
  ELSE <<Head(es)>> \o WithoutNulls(Tail(es))
UnmarshalRawsNoNulls(raw) ==
  IF raw.kind = "null" THEN [err |-> FALSE, val |-> <<>>]
  ELSE IF raw.kind # "array" THEN [err |-> TRUE, val |-> <<>>]
  ELSE [err |-> FALSE, val |-> WithoutNulls(raw.elems)]

\* json.Unmarshal(rawJson, &[]json.RawMessage): each element's own bytes.
UnmarshalRaws(raw) ==
  IF raw.kind = "null" THEN [err |-> FALSE, val |-> <<>>]
  ELSE IF raw.kind # "array" THEN [err |-> TRUE, val |-> <<>>]
  ELSE [err |-> FALSE, val |-> raw.elems]

\* json.Unmarshal(sub, p) for p pointing at the variant struct v: exported
\* fields only, unknown keys ignored, null leaves v alone.
UnmarshalStruct(e, v) ==
  IF e.isNull THEN [err |-> FALSE, val |-> v]
  ELSE IF v.ty = "TypeString" THEN
    LET a == DecodeStr(v.ValueA, Get(e, "ValueA"))
    IN [err |-> a.err, val |-> [v EXCEPT !.ValueA = a.val]]
  ELSE IF v.ty = "TypeFloat" THEN
    LET b == DecodeNum(v.ValueB, Get(e, "ValueB"))
    IN [err |-> b.err, val |-> [v EXCEPT !.ValueB = b.val]]
  ELSE IF v.ty = "Item" THEN
    LET t == DecodeStr(v.Type, Get(e, "type"))
        c == DecodeNum(v.ValueC, Get(e, "ValueC"))
    IN [err |-> t.err \/ c.err,
        val |-> [v EXCEPT !.Type = t.val, !.ValueC = c.val]]
  ELSE
    LET c == DecodeNum(v.ValueC, Get(e, "ValueC"))
    IN [err |-> c.err, val |-> [v EXCEPT !.ValueC = c.val]]

(***************************************************************************)
(* makeTargetFieldLookup's map, built field by field; a later field with   *)
(* the same type name replaces the earlier one.                            *)
(***************************************************************************)
FieldLookupOf(fields, n) ==
  LET T == fields[n].type
      inner == IF Kind(T) = "slice" THEN Elem(T) ELSE T
      isPtr == Kind(inner) = "ptr"
  IN [index |-> n,
      fieldType |-> IF isPtr THEN Elem(inner) ELSE inner,
      kind |-> Kind(T),
      ptr |-> isPtr]

\* As FieldTypeName, with the poly tag ignored.
FieldNameOnly(f) == f.name
FieldTypeName(f) == IF f.poly # NoTag THEN f.poly ELSE f.name

\* As BuildLookup, but a type name that is already in the map is kept.
RECURSIVE BuildLookupKeepFirst(_, _)
BuildLookupKeepFirst(fields, n) ==
  IF n = 0 THEN <<>>
  ELSE BuildLookupKeepFirst(fields, n - 1)
       @@ (FieldTypeName(fields[n]) :> FieldLookupOf(fields, n))

RECURSIVE BuildLookup(_, _)
BuildLookup(fields, n) ==
  IF n = 0 THEN <<>>
  ELSE (FieldTypeName(fields[n]) :> FieldLookupOf(fields, n))
       @@ BuildLookup(fields, n - 1)

\* As SetIndex, counting from one.
SetIndexOneBased(v, idx) == [v EXCEPT !.index = idx + 1]

\* (*TypeInt).SetIndex
SetIndex(v, idx) == [v EXCEPT !.index = idx]

\* As ReflectAppend, at the front.
AppendFront(slice, x) == <<x>> \o slice

\* reflect.Append(targetValue.Field(fl.index), newSub)
ReflectAppend(slice, x) == Append(slice, x)

\* As AssignTo, but a slice field starts again from empty.
AssignToFresh(c, f, ns) ==
  LET x == IF f.ptr THEN ns ELSE ns[1] IN
  IF f.kind = "slice" THEN [c EXCEPT ![f.index] = <<x>>]
  ELSE [c EXCEPT ![f.index] = x]

\* As AssignTo, but a struct or pointer field that is already set is kept.
AssignToKeepFirst(c, f, ns) ==
  LET x == IF f.ptr THEN ns ELSE ns[1] IN
  IF f.kind = "slice" THEN [c EXCEPT ![f.index] = ReflectAppend(@, x)]
  ELSE IF c[f.index] = Zero(IF f.ptr THEN <<"ptr">> \o f.fieldType ELSE f.fieldType)
       THEN [c EXCEPT ![f.index] = x]
       ELSE c

\* Lines 191-204: unwrap newSub unless the field holds pointers, then append
\* to a slice field or set a struct or pointer field.
AssignTo(c, f, ns) ==
  LET x == IF f.ptr THEN ns ELSE ns[1] IN
  IF f.kind = "slice" THEN [c EXCEPT ![f.index] = ReflectAppend(@, x)]
  ELSE [c EXCEPT ![f.index] = x]

(***************************************************************************)
(* The encoder: Flatten and Marshal.  A container handed to them is a      *)
(* record [fields, val]: its struct type and the values of its fields.     *)
(***************************************************************************)
\* math.MaxInt, for an int of 32 bits.
MaxInt == 2147483647

\* A reflect.Value of one element: its struct, and whether the value is a
\* pointer to that struct or the struct itself.
RValue(isPtr, v) == [ptr |-> isPtr, v |-> v]

\* As IsZero, with a pointer to a zero struct counted as zero too.
IsZeroDeep(T, x) == x = Zero(T) \/ (Kind(T) = "ptr" /\ x = <<Zero(Elem(T))>>)

\* As IsZero, with only nil counted as zero.
IsNil(T, x) == Kind(T) # "struct" /\ x = <<>>

\* reflect.Value.IsZero: a nil slice, a nil pointer, a struct whose fields
\* (unexported ones too) are all zero.
IsZero(T, x) == x = Zero(T)

\* The method set of the value's type.
MethodSet(x) ==
  IF x.ptr THEN PtrMethods(x.v.ty) \cup ValueMethods(x.v.ty)
  ELSE ValueMethods(x.v.ty)

\* sliceVal.CanConvert(indexGettableType)
CanConvert(x) == "GetIndex" \in MethodSet(x)

\* (*TypeInt).GetIndex
GetIndex(v) == v.index

\* func indexedObjectForValue: the indexedObject and whether it is sortable.
IndexedObjectForValue(x) ==
  [obj |-> [Index |-> IF CanConvert(x) THEN GetIndex(x.v) ELSE MaxInt,
            Value |-> x],
   sortable |-> CanConvert(x)]

\* Lines 468-475 for the first n elements of the slice s of element type E.
RECURSIVE SliceObjects(_, _, _)
SliceObjects(E, s, n) ==
  IF n = 0 THEN <<>>
  ELSE LET x == s[n]
           rv == RValue(Kind(E) = "ptr", IF Kind(E) = "ptr" THEN x[1] ELSE x)
       IN IF IsZero(E, x) THEN SliceObjects(E, s, n - 1)
          ELSE Append(SliceObjects(E, s, n - 1), IndexedObjectForValue(rv))

\* Lines 446-482 for one field of type T and value x: a struct is copied
\* behind a fresh pointer, a slice gives its non-zero elements, and anything
\* else is taken as it is unless it is zero.
FieldObjects(T, x) ==
  IF Kind(T) = "slice" THEN SliceObjects(Elem(T), x, Len(x))
  ELSE IF IsZero(T, x) THEN <<>>
  ELSE << IndexedObjectForValue(
            RValue(TRUE, IF Kind(T) = "struct" THEN x ELSE x[1])) >>

\* As Gather, from the last field to the first.
RECURSIVE GatherBackwards(_, _, _)
GatherBackwards(fields, val, n) ==
  IF n = 0 THEN <<>>
  ELSE FieldObjects(fields[n].type, val[n]) \o GatherBackwards(fields, val, n - 1)

\* The loop of lines 445-483 over the first n fields.
RECURSIVE Gather(_, _, _)
Gather(fields, val, n) ==
  IF n = 0 THEN <<>>
  ELSE Gather(fields, val, n - 1) \o FieldObjects(fields[n].type, val[n])

\* As NeedToSort, with the flag never set.
NeedToSortNever(objs) == FALSE

\* needToSort after the loop: some value met was sortable.
NeedToSort(objs) == \E k \in 1..Len(objs) : objs[k].sortable

\* As Less, for keys that are equal too.
LessOrEqual(a, b) == a.obj.Index <= b.obj.Index

\* indexedObjects[i].Index < indexedObjects[j].Index
Less(a, b) == a.obj.Index < b.obj.Index

\* sort.SliceStable, as insertion from the back.
RECURSIVE InsertSorted(_, _)
InsertSorted(s, x) ==
  IF s = <<>> THEN <<x>>
  ELSE IF Less(x, s[Len(s)])
       THEN Append(InsertSorted(SubSeq(s, 1, Len(s) - 1), x), s[Len(s)])
       ELSE Append(s, x)

RECURSIVE SortSliceStable(_)
SortSliceStable(s) ==
  IF s = <<>> THEN <<>>
  ELSE InsertSorted(SortSliceStable(SubSeq(s, 1, Len(s) - 1)), s[Len(s)])

\* sourceType.Kind() for a container handed over by value or behind a
\* pointer.
PassKinds == {"struct", "ptr"}

\* As SourceKind, with a pointer left as it is.
SourceKindAsPassed(kind) == kind

\* Lines 434-440: the kind of sourceType once a pointer is stepped through.
SourceKind(kind) == IF kind = "ptr" THEN "struct" ELSE kind

\* var flattenedObjs []any is nil until the first append.
NilSlice(n) == n = 0

\* func Flatten: [panic, isNil, elems]; NumField panics unless sourceType is
\* a struct.
Flatten(kind, o) ==
  IF SourceKind(kind) # "struct"
  THEN [panic |-> TRUE, isNil |-> TRUE, elems |-> <<>>]
  ELSE LET indexedObjects == Gather(o.fields, o.val, Len(o.fields))
           sorted == IF NeedToSort(indexedObjects)
                     THEN SortSliceStable(indexedObjects)
                     ELSE indexedObjects
       IN [panic |-> FALSE,
           isNil |-> NilSlice(Len(sorted)),
           elems |-> [k \in 1..Len(sorted) |-> sorted[k].obj.Value]]

\* As MarshalStruct, with the type field of an Item left out.
MarshalStructUntagged(v) ==
  IF v.ty = "TypeString" THEN JObj("ValueA" :> JStr(v.ValueA))
  ELSE IF v.ty = "TypeFloat" THEN JObj("ValueB" :> JNum(v.ValueB))
  ELSE JObj("ValueC" :> JNum(v.ValueC))

\* json.Marshal of one variant (or of a pointer to it): exported fields
\* under their JSON names.
MarshalStruct(v) ==
  IF v.ty = "TypeString" THEN JObj("ValueA" :> JStr(v.ValueA))
  ELSE IF v.ty = "TypeFloat" THEN JObj("ValueB" :> JNum(v.ValueB))
  ELSE IF v.ty = "Item"
       THEN JObj("type" :> JStr(v.Type) @@ "ValueC" :> JNum(v.ValueC))
  ELSE JObj("ValueC" :> JNum(v.ValueC))

\* json.Marshal of a []any: null for a nil slice, else an array.
JsonMarshal(slice) ==
  IF slice.isNil THEN JRaw("null")
  ELSE JArray([k \in 1..Len(slice.elems) |-> MarshalStruct(slice.elems[k].v)])

\* func Marshal: [panic, bytes]
Marshal(kind, o) ==
  LET objs == Flatten(kind, o)
  IN IF objs.panic THEN [panic |-> TRUE, bytes |-> JRaw("nil")]
     ELSE [panic |-> FALSE, bytes |-> JsonMarshal(objs)]

\* Before any call: no objects, no bytes.
NoObjs == [panic |-> FALSE, isNil |-> TRUE, elems |-> <<>>]
NoBytes == [panic |-> FALSE, bytes |-> JRaw("nil")]

(***************************************************************************)
(* One call of UnmarshalCustom.                                            *)
(***************************************************************************)
VARIABLES
  pc,            \* where the call stands
  rawJson, target, typeLocator,   \* the arguments
  container,     \* the struct behind target
  pre,           \* the struct as it was when the call began
  targetFields, subTypesSlice, subJSONs, i, fl, newSub,   \* locals
  result,        \* "" while running, then "nil", an error, or "panic"
  trace          \* what the call has done so far, in order

\* A program that encodes a container, and concurrent calls.
VARIABLES
  stage,         \* the last call the encoding program has made
  obj,           \* its container: [fields, val]
  input,         \* the array the container was decoded from, if it was
  flattened,     \* what Flatten returned, by how the container was passed
  marshalled,    \* what Marshal returned, by how the container was passed
  back,          \* the call that decoded Marshal's bytes again
  calls          \* the calls running side by side, each a call record

decVars == <<pc, rawJson, target, typeLocator, container, pre, targetFields,
             subTypesSlice, subJSONs, i, fl, newSub, result, trace>>
encVars == <<stage, obj, input, flattened, marshalled, back>>
vars == <<decVars, encVars, calls>>

Ev(op, pos, tag) == [op |-> op, pos |-> pos, tag |-> tag]

ZeroContainer == [f \in 1..NumField |-> Zero(TargetFields[f].type)]
\* A container some earlier code has already filled.
UsedContainer ==
  << << [ZeroStruct("TypeString") EXCEPT !.ValueA = "p"] >>,
     << >>,
     [ZeroStruct("TypeInt") EXCEPT !.ValueC = 5, !.index = 9],
     << [ZeroStruct("TypeInt") EXCEPT !.ValueC = 6, !.index = 8] >> >>
InitialContainers == {ZeroContainer, UsedContainer}

NoLookup == [index |-> 0, fieldType |-> <<>>, kind |-> "", ptr |-> FALSE]

\* No encoding program, no call running side by side with another.
NoObj == [fields |-> <<>>, val |-> <<>>]
NoBack == [result |-> "", container |-> <<>>]
NoProgram ==
  /\ stage = "none" /\ obj = NoObj /\ input = JRaw("nil")
  /\ flattened = [k \in PassKinds |-> NoObjs]
  /\ marshalled = [k \in PassKinds |-> NoBytes]
  /\ back = NoBack

Init ==
  /\ pc = "idle"
  /\ rawJson = JRaw("nil") /\ target = "ptr" /\ typeLocator = "GenericTypeLocator"
  /\ container \in InitialContainers
  /\ pre = container
  /\ targetFields = <<>> /\ subTypesSlice = <<>> /\ subJSONs = <<>>
  /\ i = 0 /\ fl = NoLookup /\ newSub = <<>>
  /\ result = "" /\ trace = <<>>
  /\ NoProgram /\ calls = <<>>

Return(r) == pc' = "done" /\ result' = r

\* As IsEmpty, for nil alone.
IsEmptyNilOnly(raw) == raw.kind = "nil"

\* len(rawJson) == 0
IsEmpty(raw) == RawLen(raw) = 0

\* The call itself, up to the first helper.
UnmarshalCustom ==
  /\ pc = "idle"
  /\ \E raw \in RawInputs, tg \in TargetKinds, loc \in Locators :
       /\ rawJson' = raw /\ target' = tg /\ typeLocator' = loc
       /\ IF IsEmpty(raw) THEN Return("nil")
          ELSE pc' = "makeTargetFieldLookup" /\ result' = result
  /\ UNCHANGED <<container, pre, targetFields, subTypesSlice, subJSONs, i, fl,
                 newSub, trace>>
  /\ UNCHANGED <<encVars, calls>>

\* As NotPointer, with the test left out.
NotPointerNever(tg) == FALSE

\* targetTypePtr.Kind() != reflect.Pointer
NotPointer(tg) == tg = "value"

MakeTargetFieldLookup ==
  /\ pc = "makeTargetFieldLookup"
  /\ trace' = Append(trace, Ev("makeTargetFieldLookup", -1, ""))
  /\ IF NotPointer(target) THEN
       Return("target must be a pointer") /\ UNCHANGED targetFields
     ELSE IF target = "ptrNonStruct" THEN
       \* reflect: NumField of non-struct type
       Return("panic") /\ UNCHANGED targetFields
     ELSE
       /\ targetFields' = BuildLookup(TargetFields, NumField)
       /\ pc' = "unmarshallTypeMap" /\ result' = result
  /\ UNCHANGED <<rawJson, target, typeLocator, container, pre, subTypesSlice,
                 subJSONs, i, fl, newSub>>
  /\ UNCHANGED <<encVars, calls>>

\* As AssignableToTypeLocator, with the test left out.
AssignableAlways(loc) == TRUE

\* reflect.PointerTo(typeLocator).AssignableTo(typeLocatorType)
AssignableToTypeLocator(loc) == loc = "GenericTypeLocator"

\* As UnmarshallTypeMap, with the input parsed before the resolver type is
\* looked at.
UnmarshallTypeMapParseFirst ==
  /\ pc = "unmarshallTypeMap"
  /\ trace' = Append(trace, Ev("unmarshallTypeMap", -1, ""))
  /\ LET r == UnmarshalProbes(rawJson, typeLocator) IN
       IF r.err THEN Return("json: type map") /\ UNCHANGED subTypesSlice
       ELSE IF ~AssignableToTypeLocator(typeLocator) THEN
         Return("typeLocator not assignable to a TypeLocator")
         /\ UNCHANGED subTypesSlice
       ELSE subTypesSlice' = r.val /\ pc' = "unmarshallSubArrays"
            /\ result' = result
  /\ UNCHANGED <<rawJson, target, typeLocator, container, pre, targetFields,
                 subJSONs, i, fl, newSub>>
  /\ UNCHANGED <<encVars, calls>>

\* func unmarshallTypeMap, as called at line 147.
UnmarshallTypeMap ==
  /\ pc = "unmarshallTypeMap"
  /\ trace' = Append(trace, Ev("unmarshallTypeMap", -1, ""))
  /\ IF ~AssignableToTypeLocator(typeLocator) THEN
       Return("typeLocator not assignable to a TypeLocator")
       /\ UNCHANGED subTypesSlice
     ELSE LET r == UnmarshalProbes(rawJson, typeLocator) IN
       IF r.err THEN Return("json: type map") /\ UNCHANGED subTypesSlice
       ELSE subTypesSlice' = r.val /\ pc' = "unmarshallSubArrays"
            /\ result' = result
  /\ UNCHANGED <<rawJson, target, typeLocator, container, pre, targetFields,
                 subJSONs, i, fl, newSub>>
  /\ UNCHANGED <<encVars, calls>>

UnmarshallSubArrays ==
  /\ pc = "unmarshallSubArrays"
  /\ trace' = Append(trace, Ev("unmarshallSubArrays", -1, ""))
  /\ LET r == UnmarshalRaws(rawJson) IN
       IF r.err THEN Return("json: sub arrays") /\ UNCHANGED subJSONs
       ELSE subJSONs' = r.val /\ pc' = "loop" /\ result' = result
  /\ UNCHANGED <<rawJson, target, typeLocator, container, pre, targetFields,
                 subTypesSlice, i, fl, newSub>>
  /\ UNCHANGED <<encVars, calls>>

\* subTypesSlice.Index(i).Interface().(TypeLocator)
ImplementsTypeLocator(loc) == loc = "GenericTypeLocator"

\* What one loop iteration finds for the probe p and the sub-document sub
\* (lines 167-183): a panic in TypeName, a skip, a decode error, or a
\* decoded instance of the matching field's type.
Outcome(kind, t, f, v) == [kind |-> kind, tag |-> t, f |-> f, val |-> v]

\* As Iteration, but a tag with no field is an error.
IterationStrict(p, sub, fields) ==
  IF p = <<>> THEN Outcome("panic", "", NoLookup, <<>>)
  ELSE LET t == TypeName(p[1]) IN
    IF StrLen(t) = 0 THEN Outcome("skip", t, NoLookup, <<>>)
    ELSE IF t \notin DOMAIN fields THEN Outcome("error", t, NoLookup, <<>>)
    ELSE LET f == fields[t]
             r == UnmarshalStruct(sub, Zero(f.fieldType))
         IN IF r.err THEN Outcome("error", t, f, <<>>)
            ELSE Outcome("decoded", t, f, <<r.val>>)

\* As Iteration, but a sub-document that fails to decode is skipped.
IterationLenient(p, sub, fields) ==
  IF p = <<>> THEN Outcome("panic", "", NoLookup, <<>>)
  ELSE LET t == TypeName(p[1]) IN
    IF StrLen(t) = 0 THEN Outcome("skip", t, NoLookup, <<>>)
    ELSE IF t \notin DOMAIN fields THEN Outcome("skip", t, NoLookup, <<>>)
    ELSE LET f == fields[t]
             r == UnmarshalStruct(sub, Zero(f.fieldType))
         IN IF r.err THEN Outcome("skip", t, f, <<>>)
            ELSE Outcome("decoded", t, f, <<r.val>>)

Iteration(p, sub, fields) ==
  IF p = <<>> THEN Outcome("panic", "", NoLookup, <<>>)
  ELSE LET t == TypeName(p[1]) IN
    IF StrLen(t) = 0 THEN Outcome("skip", t, NoLookup, <<>>)
    ELSE IF t \notin DOMAIN fields THEN Outcome("skip", t, NoLookup, <<>>)
    ELSE LET f == fields[t]
             r == UnmarshalStruct(sub, Zero(f.fieldType))
         IN IF r.err THEN Outcome("error", t, f, <<>>)
            ELSE Outcome("decoded", t, f, <<r.val>>)

\* The head of one loop iteration, up to the decode of the sub-document.
LoopStep ==
  /\ pc = "loop"
  /\ IF i >= Len(subTypesSlice) THEN
       Return("nil") /\ UNCHANGED <<i, fl, newSub, trace>>
     ELSE IF ~ImplementsTypeLocator(typeLocator) THEN
       Return("could not convert object to a TypeLocator")
       /\ UNCHANGED <<i, fl, newSub, trace>>
     ELSE LET o == Iteration(subTypesSlice[i + 1], subJSONs[i + 1], targetFields) IN
       CASE o.kind = "panic" ->
              \* TypeName reads t.Type through a nil receiver
              /\ Return("panic")
              /\ trace' = Append(trace, Ev("nilReceiver", i, o.tag))
              /\ UNCHANGED <<i, fl, newSub>>
         [] o.kind = "skip" ->
              /\ i' = i + 1 /\ trace' = Append(trace, Ev("skip", i, o.tag))
              /\ UNCHANGED <<pc, result, fl, newSub>>
         [] o.kind = "error" ->
              /\ Return("json: sub object")
              /\ trace' = Append(trace, Ev("decodeError", i, o.tag))
              /\ UNCHANGED <<i, fl, newSub>>
         [] OTHER ->
              /\ fl' = o.f /\ newSub' = o.val /\ pc' = "setIndex"
              /\ trace' = Append(trace, Ev("decode", i, o.tag))
              /\ UNCHANGED <<i, result>>
  /\ UNCHANGED <<rawJson, target, typeLocator, container, pre, targetFields,
                 subTypesSlice, subJSONs>>
  /\ UNCHANGED <<encVars, calls>>

\* As SetIndexStep, with the call of SetIndex left out.
SetIndexSkipped ==
  /\ pc = "setIndex"
  /\ pc' = "assign"
  /\ UNCHANGED <<rawJson, target, typeLocator, container, pre, targetFields,
                 subTypesSlice, subJSONs, i, fl, newSub, result, trace>>
  /\ UNCHANGED <<encVars, calls>>

\* if indexable, ok := newSubObj.(IndexSettable); ok { indexable.SetIndex(i) }
SetIndexStep ==
  /\ pc = "setIndex"
  /\ IF "SetIndex" \in PtrMethods(newSub[1].ty) THEN
       /\ newSub' = <<SetIndex(newSub[1], i)>>
       /\ trace' = Append(trace, Ev("SetIndex", i, newSub[1].ty))
     ELSE UNCHANGED <<newSub, trace>>
  /\ pc' = "assign"
  /\ UNCHANGED <<rawJson, target, typeLocator, container, pre, targetFields,
                 subTypesSlice, subJSONs, i, fl, result>>
  /\ UNCHANGED <<encVars, calls>>

Assign ==
  /\ pc = "assign"
  /\ container' = AssignTo(container, fl, newSub)
  /\ trace' = Append(trace, Ev("assign", i, TargetFields[fl.index].name))
  /\ i' = i + 1 /\ pc' = "loop"
  /\ UNCHANGED <<rawJson, target, typeLocator, pre, targetFields,
                 subTypesSlice, subJSONs, fl, newSub, result>>
  /\ UNCHANGED <<encVars, calls>>

Next ==
  \/ UnmarshalCustom
  \/ MakeTargetFieldLookup
  \/ UnmarshallTypeMap
  \/ UnmarshallSubArrays
  \/ LoopStep
  \/ SetIndexStep
  \/ Assign

Spec == Init /\ [][Next]_vars

(***************************************************************************)
(* A call as a value: the arguments and locals of one call of              *)
(* UnmarshalCustom or Marshal in one record, and the statement groups      *)
(* above as one function from a call's state to its next state.  The       *)
(* container's struct type is an argument here.                            *)
(***************************************************************************)
Call(op, raw, tg, loc, fields, c) ==
  [op |-> op, pc |-> "call", rawJson |-> raw, target |-> tg,
   typeLocator |-> loc, fields |-> fields, container |-> c, pre |-> c,
   targetFields |-> <<>>, subTypesSlice |-> <<>>, subJSONs |-> <<>>,
   i |-> 0, fl |-> NoLookup, newSub |-> <<>>,
   flattenedObjs |-> NoObjs, bytes |-> JRaw("nil"), result |-> ""]

Returned(s, r) == [s EXCEPT !.pc = "done", !.result = r]

\* One statement group of UnmarshalCustom.
UnmarshalStep(s) ==
  CASE s.pc = "call" ->
         IF IsEmpty(s.rawJson) THEN Returned(s, "nil")
         ELSE [s EXCEPT !.pc = "makeTargetFieldLookup"]
    [] s.pc = "makeTargetFieldLookup" ->
         IF NotPointer(s.target) THEN Returned(s, "target must be a pointer")
         ELSE IF s.target = "ptrNonStruct" THEN Returned(s, "panic")
         ELSE [s EXCEPT !.targetFields = BuildLookup(s.fields, Len(s.fields)),
                        !.pc = "unmarshallTypeMap"]
    [] s.pc = "unmarshallTypeMap" ->
         IF ~AssignableToTypeLocator(s.typeLocator)
         THEN Returned(s, "typeLocator not assignable to a TypeLocator")
         ELSE LET r == UnmarshalProbes(s.rawJson, s.typeLocator) IN
           IF r.err THEN Returned(s, "json: type map")
           ELSE [s EXCEPT !.subTypesSlice = r.val, !.pc = "unmarshallSubArrays"]
    [] s.pc = "unmarshallSubArrays" ->
         LET r == UnmarshalRaws(s.rawJson) IN
           IF r.err THEN Returned(s, "json: sub arrays")
           ELSE [s EXCEPT !.subJSONs = r.val, !.pc = "loop"]
    [] s.pc = "loop" ->
         IF s.i >= Len(s.subTypesSlice) THEN Returned(s, "nil")
         ELSE IF ~ImplementsTypeLocator(s.typeLocator)
         THEN Returned(s, "could not convert object to a TypeLocator")
         ELSE LET o == Iteration(s.subTypesSlice[s.i + 1], s.subJSONs[s.i + 1],
                                 s.targetFields) IN
           CASE o.kind = "panic" -> Returned(s, "panic")
             [] o.kind = "skip" -> [s EXCEPT !.i = s.i + 1]
             [] o.kind = "error" -> Returned(s, "json: sub object")
             [] OTHER -> [s EXCEPT !.fl = o.f, !.newSub = o.val, !.pc = "setIndex"]
    [] s.pc = "setIndex" ->
         IF "SetIndex" \in PtrMethods(s.newSub[1].ty)
         THEN [s EXCEPT !.newSub = <<SetIndex(s.newSub[1], s.i)>>, !.pc = "assign"]
         ELSE [s EXCEPT !.pc = "assign"]
    [] s.pc = "assign" ->
         [s EXCEPT !.container = AssignTo(s.container, s.fl, s.newSub),
                   !.i = s.i + 1, !.pc = "loop"]
    [] OTHER -> s

\* One statement of Marshal: Flatten, then json.Marshal.
MarshalStep(s) ==
  CASE s.pc = "call" ->
         LET objs == Flatten(s.target, [fields |-> s.fields, val |-> s.container])
         IN IF objs.panic THEN Returned(s, "panic")
            ELSE [s EXCEPT !.flattenedObjs = objs, !.pc = "json.Marshal"]
    [] s.pc = "json.Marshal" ->
         [Returned(s, "nil") EXCEPT !.bytes = JsonMarshal(s.flattenedObjs)]
    [] OTHER -> s

CallStep(s) == IF s.op = "Marshal" THEN MarshalStep(s) ELSE UnmarshalStep(s)

\* A call run to its return.
RECURSIVE Run(_)
Run(s) == IF s.pc = "done" THEN s ELSE Run(CallStep(s))

\* Unmarshal(rawJson, &c) for a container c of struct type fields.
Unmarshal(raw, fields, c) ==
  Run(Call("Unmarshal", raw, "ptr", "GenericTypeLocator", fields, c))

(***************************************************************************)
(* The encoding program.  A container, filled by the caller or decoded     *)
(* from an array, is flattened and marshalled, by value and then behind a  *)
(* pointer, as TestMarshalPoly does, and the bytes are decoded into a      *)
(* fresh container, as TestExampleUnmarshall does.                         *)
(***************************************************************************)
\* Longest slice of strings or of pointers in a container the caller fills,
\* and longest array the program decodes.
MaxSlice == 2
MaxArray == 2

Seqs(S, n) == UNION {[1..k -> S] : k \in 0..n}

\* SlicesABC values: zero and non-zero elements, indexes that tie and the
\* largest index there is.
StringValues ==
  { ZeroStruct("TypeString"),
    [ZeroStruct("TypeString") EXCEPT !.ValueA = "A"],
    [ZeroStruct("TypeString") EXCEPT !.ValueA = "B"] }
FloatSlices ==
  { <<>>,
    << [ZeroStruct("TypeFloat") EXCEPT !.ValueB = 42] >>,
    << ZeroStruct("TypeFloat"), [ZeroStruct("TypeFloat") EXCEPT !.ValueB = 42] >> }
IntValue(c, x) == [ZeroStruct("TypeInt") EXCEPT !.ValueC = c, !.index = x]
IntValues == {IntValue(0, 0), IntValue(0, 1), IntValue(23, 2), IntValue(23, MaxInt)}
IntPointers ==
  { <<>>, <<IntValue(0, 0)>>, <<IntValue(105, 1)>>, <<IntValue(105, 2)>>,
    <<IntValue(105, MaxInt)>> }
SlicesABCInputs ==
  { [fields |-> SlicesABC, val |-> <<a, b, c, d>>] :
      a \in Seqs(StringValues, MaxSlice), b \in FloatSlices,
      c \in IntValues, d \in IntPointers }

\* ItemSlots values: every Item names the tag of the slot that holds it.
ItemValue(tag, c, x) ==
  [ZeroStruct("Item") EXCEPT !.Type = tag, !.ValueC = c, !.index = x]
ItemsOf(tag) == {ItemValue(tag, 1, 1), ItemValue(tag, 2, 0)}
ItemSlices ==
  { <<>>,
    << ItemValue("item", 2, 0) >>,
    << ZeroStruct("Item"), ItemValue("item", 1, 1) >> }
ItemSlotsInputs ==
  { [fields |-> ItemSlots, val |-> <<a, b, c, d>>] :
      a \in ItemSlices,
      b \in Seqs({<<>>, <<ZeroStruct("Item")>>}
                    \cup {<<v>> : v \in ItemsOf("itemp")}, MaxSlice),
      c \in {ZeroStruct("Item")} \cup ItemsOf("one"),
      d \in {<<>>, <<ZeroStruct("Item")>>} \cup {<<v>> : v \in ItemsOf("onep")} }

ProgramInputs == SlicesABCInputs \cup ItemSlotsInputs

\* The arrays the program decodes into a fresh container of each type.
ProgramElements(fields) ==
  IF fields = SlicesABC
  THEN { JObj("type" :> JStr("TypeString") @@ "ValueA" :> JStr("x")),
         JObj("type" :> JStr("TypeString") @@ "ValueA" :> JStr("y")),
         JObj("type" :> JStr("TypeFloat") @@ "ValueB" :> JNum(42)),
         JObj("type" :> JStr("TypeInt") @@ "ValueC" :> JNum(105)),
         JObj("type" :> JStr("TypeIntP") @@ "ValueC" :> JNum(123)) }
  ELSE { JObj("type" :> JStr(t) @@ "ValueC" :> JNum(c)) :
           t \in {"item", "itemp", "one", "onep"}, c \in {1, 2} }
ProgramArrays(fields) ==
  {JArray(es) : es \in Seqs(ProgramElements(fields), MaxArray)}

\* A fresh container of struct type fields.
ZeroOf(fields) == [f \in 1..Len(fields) |-> Zero(fields[f].type)]

\* No call of the step-by-step decoder.
NoDecoder ==
  /\ pc = "none"
  /\ rawJson = JRaw("nil") /\ target = "ptr" /\ typeLocator = "GenericTypeLocator"
  /\ container = ZeroContainer /\ pre = ZeroContainer
  /\ targetFields = <<>> /\ subTypesSlice = <<>> /\ subJSONs = <<>>
  /\ i = 0 /\ fl = NoLookup /\ newSub = <<>>
  /\ result = "" /\ trace = <<>>

EncInit ==
  /\ NoDecoder /\ calls = <<>>
  /\ stage = "new" /\ obj \in ProgramInputs /\ input = JRaw("nil")
  /\ flattened = [k \in PassKinds |-> NoObjs]
  /\ marshalled = [k \in PassKinds |-> NoBytes]
  /\ back = NoBack

\* Unmarshal(raw, &obj) on a fresh container.
UnmarshalCall ==
  /\ stage = "new" /\ obj.val = ZeroOf(obj.fields)
  /\ \E raw \in ProgramArrays(obj.fields) :
       /\ input' = raw
       /\ obj' = [obj EXCEPT !.val = Unmarshal(raw, obj.fields, obj.val).container]
  /\ stage' = "Unmarshal"
  /\ UNCHANGED <<decVars, flattened, marshalled, back, calls>>

\* Flatten(obj), then Flatten(&obj)
FlattenCall ==
  /\ \E k \in PassKinds :
       /\ \/ k = "struct" /\ stage \in {"new", "Unmarshal"}
          \/ k = "ptr" /\ stage = "Flatten(value)"
       /\ flattened' = [flattened EXCEPT ![k] = Flatten(k, obj)]
       /\ stage' = IF k = "struct" THEN "Flatten(value)" ELSE "Flatten(ptr)"
  /\ UNCHANGED <<decVars, obj, input, marshalled, back, calls>>

\* Marshal(obj), then Marshal(&obj)
MarshalCall ==
  /\ \E k \in PassKinds :
       /\ \/ k = "struct" /\ stage = "Flatten(ptr)"
          \/ k = "ptr" /\ stage = "Marshal(value)"
       /\ marshalled' = [marshalled EXCEPT ![k] = Marshal(k, obj)]
       /\ stage' = IF k = "struct" THEN "Marshal(value)" ELSE "Marshal(ptr)"
  /\ UNCHANGED <<decVars, obj, input, flattened, back, calls>>

\* Unmarshal(bytes, &fresh) with the bytes Marshal(obj) returned.
UnmarshalBack ==
  /\ stage = "Marshal(ptr)" /\ ~marshalled["struct"].panic
  /\ LET r == Unmarshal(marshalled["struct"].bytes, obj.fields, ZeroOf(obj.fields))
     IN back' = [result |-> r.result, container |-> r.container]
  /\ stage' = "Unmarshal(bytes)"
  /\ UNCHANGED <<decVars, obj, input, flattened, marshalled, calls>>

EncNext == UnmarshalCall \/ FlattenCall \/ MarshalCall \/ UnmarshalBack

EncSpec == EncInit /\ [][EncNext]_vars

(***************************************************************************)
(* Two calls side by side, each on a container of its own: two goroutines  *)
(* that call Unmarshal, or two that call Marshal, one statement group of   *)
(* either at a time.  The only package state, typeLocatorType and          *)
(* DefaultLocator, is read and never written.                              *)
(***************************************************************************)
\* Longest array a call decodes while another call runs.
MaxConc == 2

Procs == {1, 2}

ConcArrays ==
  {JRaw("invalid")}
  \cup {JArray(es) :
          es \in Seqs({ JObj("type" :> JStr("TypeString") @@ "ValueA" :> JStr("x")),
                        JObj("type" :> JStr("TypeIntP") @@ "ValueC" :> JNum(123)) },
                      MaxConc)}

\* The first goroutine's container is fresh, the second's already filled.
ConcContainers == <<ZeroContainer, UsedContainer>>
UnmarshalCalls(p) ==
  { Call("Unmarshal", raw, "ptr", "GenericTypeLocator", SlicesABC, ConcContainers[p]) :
      raw \in ConcArrays }
MarshalCalls(p) ==
  { Call("Marshal", JRaw("nil"), k, "GenericTypeLocator", SlicesABC, c) :
      k \in PassKinds,
      c \in {ConcContainers[p],
             << <<>>, <<>>, IntValue(23, p), <<IntValue(105, 3 - p)>> >>} }

ConcInit ==
  /\ NoDecoder /\ NoProgram
  /\ \/ calls \in {<<a, b>> : a \in UnmarshalCalls(1), b \in UnmarshalCalls(2)}
     \/ calls \in {<<a, b>> : a \in MarshalCalls(1), b \in MarshalCalls(2)}

\* As OwnState, with the loop counter kept in one place for all calls.
SharedCounter(cs, p) == [cs[p] EXCEPT !.i = cs[1].i]

\* What a call reads and writes: its own arguments and locals.
OwnState(cs, p) == cs[p]

\* The next statement group of call p.
ConcStep ==
  /\ \E p \in Procs :
       /\ calls[p].pc # "done"
       /\ calls' = [calls EXCEPT ![p] = CallStep(OwnState(calls, p))]
  /\ UNCHANGED <<decVars, encVars>>

ConcNext == ConcStep

ConcSpec == ConcInit /\ [][ConcNext]_vars

(***************************************************************************)
(* One call on a container two of whose fields answer to the same type     *)
(* name, one statement group at a time.                                    *)
(***************************************************************************)
\* Longest array decoded into such a container.
MaxDup == 3

\* struct { First []TypeString `poly:"dup"`; dup TypeInt;
\*          Last []*TypeInt `poly:"dup"` }
DupSlices ==
  << [name |-> "First", poly |-> "dup", type |-> <<"slice", "TypeString">>],
     [name |-> "dup", poly |-> NoTag, type |-> <<"TypeInt">>],
     [name |-> "Last", poly |-> "dup", type |-> <<"slice", "ptr", "TypeInt">>] >>
\* struct { Early []TypeInt `poly:"dup"`; Late *TypeInt `poly:"dup"`;
\*          Other []TypeString }
DupSingle ==
  << [name |-> "Early", poly |-> "dup", type |-> <<"slice", "TypeInt">>],
     [name |-> "Late", poly |-> "dup", type |-> <<"ptr", "TypeInt">>],
     [name |-> "Other", poly |-> NoTag, type |-> <<"slice", "TypeString">>] >>

\* Fresh and already filled containers of the two types.
DupTargets ==
  { [fields |-> DupSlices, val |-> ZeroOf(DupSlices)],
    [fields |-> DupSlices,
     val |-> << << [ZeroStruct("TypeString") EXCEPT !.ValueA = "p"] >>,
                IntValue(5, 9), << <<IntValue(6, 8)>> >> >>],
    [fields |-> DupSingle, val |-> ZeroOf(DupSingle)],
    [fields |-> DupSingle,
     val |-> << <<IntValue(5, 9)>>, <<IntValue(6, 8)>>, <<>> >>] }

DupElements ==
  { JObj("type" :> JStr("dup") @@ "ValueC" :> JNum(1)),
    JObj("type" :> JStr("dup") @@ "ValueC" :> JNum(2) @@ "ValueA" :> JStr("x")),
    JObj("type" :> JStr("First") @@ "ValueA" :> JStr("x")),
    JObj("type" :> JStr("Other") @@ "ValueA" :> JStr("y")) }
DupArrays == {JArray(es) : es \in Seqs(DupElements, MaxDup)}

DupInit ==
  /\ NoDecoder /\ NoProgram
  /\ \E t \in DupTargets, raw \in DupArrays :
       calls = << Call("Unmarshal", raw, "ptr", "GenericTypeLocator", t.fields, t.val) >>

\* The next statement group of the call.
DupStep ==
  /\ calls[1].pc # "done"
  /\ calls' = << CallStep(calls[1]) >>
  /\ UNCHANGED <<decVars, encVars>>

DupNext == DupStep

DupSpec == DupInit /\ [][DupNext]_vars

(***************************************************************************)
(* What the input array says, read off the array itself: the tag of an     *)
(* element, the field a tag names, and the value an element decodes to.    *)
(***************************************************************************)
Es == rawJson.elems

\* The first non-empty string among the keys type, @type, Type, @Type.
TagKeys == <<"type", "@type", "Type", "@Type">>
TagOf(e) ==
  LET set == {k \in 1..Len(TagKeys) :
                Get(e, TagKeys[k]).t = "str" /\ Get(e, TagKeys[k]).s # ""}
  IN IF set = {} THEN ""
     ELSE Get(e, TagKeys[CHOOSE k \in set : \A j \in set : k <= j]).s

\* The field whose tag (poly annotation, else name) is t; the last such.
FieldOfTag(t) ==
  LET set == {n \in 1..NumField : FieldTypeName(TargetFields[n]) = t}
  IN IF set = {} THEN 0 ELSE CHOOSE n \in set : \A m \in set : m <= n

\* The field element e is meant for; 0 when it has no tag or no field.
RoutedTo(e) == IF e.isNull THEN 0 ELSE FieldOfTag(TagOf(e))

\* An object whose discriminator key holds something that is no string does
\* not decode into the resolver type.
ProbeFails(e) == \E k \in 1..Len(TagKeys) : Get(e, TagKeys[k]).t = "num"

\* An object whose resolver reports no tag, or a tag that no field has.
Skippable(e) == ~e.isNull /\ ~ProbeFails(e) /\ RoutedTo(e) = 0

IsSliceField(f) == Kind(TargetFields[f].type) = "slice"
HoldsPtr(f) == \E k \in 1..Len(TargetFields[f].type) : TargetFields[f].type[k] = "ptr"
Variant(f) == TargetFields[f].type[Len(TargetFields[f].type)]
Indexable(f) == "SetIndex" \in PtrMethods(Variant(f))
Struct(x, f) == IF HoldsPtr(f) THEN x[1] ELSE x

\* Whether e, meant for field f, decodes into f's variant type.
Decodes(e, f) == ~UnmarshalStruct(e, ZeroStruct(Variant(f))).err

\* What field f receives for the element e found at offset pos.
ValueFor(e, f, pos) ==
  LET v0 == UnmarshalStruct(e, ZeroStruct(Variant(f))).val
      v == IF Indexable(f) THEN [v0 EXCEPT !.index = pos] ELSE v0
  IN IF HoldsPtr(f) THEN <<v>> ELSE v

\* The values the first n elements hold for field f, in array order.
RECURSIVE ValuesFor(_, _)
ValuesFor(f, n) ==
  IF n = 0 THEN <<>>
  ELSE IF RoutedTo(Es[n]) = f
       THEN Append(ValuesFor(f, n - 1), ValueFor(Es[n], f, n - 1))
       ELSE ValuesFor(f, n - 1)

\* The last of the first n elements meant for field f (1-based), or 0.
LastFor(f, n) ==
  LET set == {k \in 1..n : RoutedTo(Es[k]) = f}
  IN IF set = {} THEN 0 ELSE CHOOSE k \in set : \A j \in set : j <= k

\* The container after the first n elements have been assigned.
ContainerAfter(n) ==
  [f \in 1..NumField |->
     IF IsSliceField(f) THEN pre[f] \o ValuesFor(f, n)
     ELSE IF LastFor(f, n) = 0 THEN pre[f]
     ELSE ValueFor(Es[LastFor(f, n)], f, LastFor(f, n) - 1)]

\* The first element (1-based) that has a field and does not decode into it.
FirstFailing ==
  LET set == {k \in 1..Len(Es) : RoutedTo(Es[k]) # 0 /\ ~Decodes(Es[k], RoutedTo(Es[k]))}
  IN IF set = {} THEN 0 ELSE CHOOSE k \in set : \A j \in set : k <= j

\* The call got as far as the loop: a pointer to the container, a usable
\* resolver type, input that parsed.
Events(ops) == {k \in 1..Len(trace) : trace[k].op \in ops}
InLoop == Events({"unmarshallSubArrays"}) # {} /\ pc # "unmarshallSubArrays"
ElementOps == {"skip", "decode", "decodeError", "SetIndex", "assign", "nilReceiver"}
IsError(r) == r \notin {"", "nil", "panic"}

(***************************************************************************)
(* Properties.                                                             *)
(***************************************************************************)

\* C1: at every point of a call each slice field holds what it held before
\* the call followed by one entry per element of the input array that is
\* meant for it and has been assigned, in ascending order of array position.
C1_SliceKeepsArrayOrder ==
  \A f \in 1..NumField :
    IsSliceField(f) => container[f] = pre[f] \o ValuesFor(f, i)

\* A finished call that appended two different elements to one slice field
\* with an element for another field between them.
C1_Witness ==
  /\ pc = "done" /\ result = "nil" /\ Len(Es) = 3
  /\ RoutedTo(Es[1]) = 1 /\ RoutedTo(Es[2]) = 3 /\ RoutedTo(Es[3]) = 1
  /\ Es[1] # Es[3]
  /\ Len(container[1]) = Len(pre[1]) + 2

\* C2: after a successful decode a struct or pointer field for which the
\* array holds two or more elements holds the value decoded from the last of
\* them, and nothing of the earlier ones.
C2_LastWriteWins ==
  (pc = "done" /\ result = "nil") =>
    \A f \in 1..NumField :
      (~IsSliceField(f) /\ Cardinality({k \in 1..Len(Es) : RoutedTo(Es[k]) = f}) >= 2)
        => container[f] = ValueFor(Es[LastFor(f, Len(Es))], f, LastFor(f, Len(Es)) - 1)

\* Two elements with different payloads for the struct field or for the
\* pointer field, the later one's payload in the field.
C2_Witness ==
  /\ pc = "done" /\ result = "nil"
  /\ \E f \in {3, 4} : \E j, k \in 1..Len(Es) :
       /\ j < k /\ RoutedTo(Es[j]) = f /\ RoutedTo(Es[k]) = f
       /\ Get(Es[j], "ValueC") # Get(Es[k], "ValueC")
       /\ Struct(container[f], f).ValueC = Get(Es[k], "ValueC").n

\* C3: the index an element records through SetIndex is its zero-based
\* offset in the input array, whatever was skipped before it: an indexable
\* value in flight, and every indexable value the call has stored, carries
\* the offset of the element it was decoded from.
C3_IndexIsArrayOffset ==
  /\ \A f \in 1..NumField :
       (Indexable(f) /\ ~IsSliceField(f) /\ LastFor(f, i) # 0) =>
         /\ Struct(container[f], f).index = LastFor(f, i) - 1
         /\ RoutedTo(Es[Struct(container[f], f).index + 1]) = f
  /\ (pc = "assign" /\ "SetIndex" \in PtrMethods(newSub[1].ty)) =>
       /\ newSub[1].index = Cardinality(Events({"skip", "assign"}))
       /\ newSub[1].index + 1 \in 1..Len(Es)
       /\ RoutedTo(Es[newSub[1].index + 1]) = fl.index

\* An element with no tag and one with an unmatched tag, then an indexable
\* element stored with index 2.
C3_Witness ==
  /\ pc = "done" /\ result = "nil" /\ Len(Es) = 3
  /\ TagOf(Es[1]) = "" /\ TagOf(Es[2]) # "" /\ Skippable(Es[2])
  /\ RoutedTo(Es[3]) = 4
  /\ container[4] # pre[4] /\ container[4][1].index = 2

\* C4: a call with nil or zero-length input has returned nil at once, and
\* has neither touched the container nor run any helper.
C4_EmptyInputIsNoOp ==
  (pc # "idle" /\ RawLen(rawJson) = 0) =>
    /\ pc = "done" /\ result = "nil"
    /\ container = pre
    /\ trace = <<>>

\* Zero-length (not nil) input against a container that was already filled.
C4_Witness ==
  /\ pc = "done" /\ rawJson.kind = "empty" /\ target = "ptr"
  /\ container = UsedContainer /\ result = "nil"

\* C5: with non-empty input and a target that is not a pointer the call
\* returns the error of makeTargetFieldLookup; nothing is parsed, no element
\* is looked at and the container is as it was.
C5_NonPointerTargetFails ==
  (pc # "idle" /\ RawLen(rawJson) > 0 /\ target = "value") =>
    /\ pc \in {"makeTargetFieldLookup", "done"}
    /\ pc = "done" => result = "target must be a pointer"
    /\ Events({"unmarshallTypeMap", "unmarshallSubArrays"} \cup ElementOps) = {}
    /\ subTypesSlice = <<>> /\ subJSONs = <<>>
    /\ container = pre

\* A struct passed by value with an array that holds an element for it.
C5_Witness ==
  /\ pc = "done" /\ target = "value" /\ typeLocator = "GenericTypeLocator"
  /\ rawJson.kind = "array" /\ Len(Es) > 0 /\ RoutedTo(Es[1]) # 0
  /\ result = "target must be a pointer"

\* C6: with non-empty input, a container (or a pointer to one) as target and
\* a resolver type whose pointer is no TypeLocator, the call returns an error
\* (that of unmarshallTypeMap, when the target is a pointer); no element is
\* looked at and the container is as it was.
C6_BadLocatorFails ==
  (pc # "idle" /\ RawLen(rawJson) > 0 /\ typeLocator = "string"
     /\ target \in {"ptr", "value"}) =>
    /\ pc \in {"makeTargetFieldLookup", "unmarshallTypeMap", "done"}
    /\ pc = "done" => IsError(result)
    /\ (pc = "done" /\ target = "ptr") =>
         result = "typeLocator not assignable to a TypeLocator"
    /\ Events(ElementOps) = {}
    /\ subTypesSlice = <<>>
    /\ container = pre

\* reflect.TypeOf("") as resolver, with an array that holds an element for
\* the container.
C6_Witness ==
  /\ pc = "done" /\ target = "ptr" /\ typeLocator = "string"
  /\ rawJson.kind = "array" /\ Len(Es) > 0 /\ RoutedTo(Es[1]) # 0
  /\ result = "typeLocator not assignable to a TypeLocator"

\* C7: an element with an empty tag, or with a tag no field has, is stepped
\* over: it is never decoded, indexed or assigned and never ends the call,
\* and the loop goes on to the next element; a call whose array holds only
\* such elements returns nil with the container as it was.
C7_SkippedElementsDoNothing ==
  /\ \A k \in Events(ElementOps \ {"skip"}) : ~Skippable(Es[trace[k].pos + 1])
  /\ InLoop =>
       \A q \in 1..i : Skippable(Es[q]) =>
         \E k \in Events({"skip"}) : trace[k].pos = q - 1
  /\ InLoop => container = ContainerAfter(i)
  /\ (pc = "done" /\ target = "ptr" /\ typeLocator = "GenericTypeLocator"
        /\ rawJson.kind = "array" /\ \A q \in 1..Len(Es) : Skippable(Es[q])) =>
       result = "nil" /\ container = pre

\* An untagged element and one with an unmatched tag, then an element that
\* is assigned.
C7_Witness ==
  /\ pc = "done" /\ result = "nil"
  /\ Len(Es) = 3 /\ TagOf(Es[1]) = ""
  /\ TagOf(Es[2]) = "TypeBravo" /\ RoutedTo(Es[3]) = 1
  /\ Len(container[1]) = Len(pre[1]) + 1

\* C8: a call ends with the error of a sub-document exactly when it reaches
\* the first element that has a field and does not decode into it; the
\* container then holds the assignments of the elements before that one and
\* nothing of that element or of any later one.
C8_FailFastKeepsPrefix ==
  /\ (pc = "done" /\ result = "json: sub object") =>
       /\ FirstFailing # 0
       /\ trace[Len(trace)] =
            Ev("decodeError", FirstFailing - 1, TagOf(Es[FirstFailing]))
       /\ \A k \in Events(ElementOps) \ {Len(trace)} : trace[k].pos < FirstFailing - 1
       /\ container = ContainerAfter(FirstFailing - 1)
  /\ (pc = "done" /\ InLoop /\ FirstFailing # 0
        /\ \A q \in 1..FirstFailing : ~Es[q].isNull) =>
       result = "json: sub object"

\* An element that is assigned, one that fails to decode, and one that
\* would have been assigned.
C8_Witness ==
  /\ pc = "done" /\ result = "json: sub object" /\ Len(Es) = 3
  /\ RoutedTo(Es[1]) = 1 /\ Decodes(Es[1], 1)
  /\ FirstFailing = 2
  /\ RoutedTo(Es[3]) = 3 /\ Decodes(Es[3], 3)
  /\ Len(container[1]) = Len(pre[1]) + 1 /\ container[3] = pre[3]

\* Input that is not a JSON array, or an array with an element that does not
\* decode into the resolver type.
NotAnArray == rawJson.kind # "array"
HasFailingProbe == \E q \in 1..Len(Es) : ProbeFails(Es[q])

\* C9 as claimed: input that is not a well-formed JSON array, or that has an
\* element the resolver type cannot take, makes the call on a container
\* return an error with the container as it was.
C9_AsClaimed ==
  (pc = "done" /\ RawLen(rawJson) > 0 /\ target \in {"ptr", "value"}
     /\ (NotAnArray \/ HasFailingProbe)) =>
    IsError(result) /\ container = pre

\* C9: input that is not well-formed JSON, or is a JSON value other than an
\* array or null, or is an array with an element the resolver type cannot
\* take, makes the call on a container return an error (that of the first
\* parse, when target and resolver type are in order) with the container as
\* it was and no element looked at; a top-level null parses as no elements
\* and the call returns nil with the container as it was; and whenever an
\* element has been looked at, both parses came before it.
C9_ParseFailureLeavesContainer ==
  /\ (pc # "idle" /\ RawLen(rawJson) > 0 /\ target \in {"ptr", "value"}
        /\ (rawJson.kind \in {"invalid", "object"} \/ HasFailingProbe)) =>
       /\ pc \in {"makeTargetFieldLookup", "unmarshallTypeMap", "done"}
       /\ pc = "done" => IsError(result)
       /\ (pc = "done" /\ target = "ptr" /\ typeLocator = "GenericTypeLocator")
            => result = "json: type map"
       /\ Events(ElementOps) = {}
       /\ container = pre
  /\ (pc = "done" /\ rawJson.kind = "null" /\ target = "ptr"
        /\ typeLocator = "GenericTypeLocator") =>
       result = "nil" /\ container = pre /\ Events(ElementOps) = {}
  /\ Events(ElementOps) # {} =>
       /\ Len(trace) > 3
       /\ trace[2].op = "unmarshallTypeMap" /\ trace[3].op = "unmarshallSubArrays"
       /\ \A k \in Events(ElementOps) : k > 3

\* An array whose first element has a field and whose last element cannot
\* be taken by the resolver type, against a filled container.
C9_Witness ==
  /\ pc = "done" /\ target = "ptr" /\ typeLocator = "GenericTypeLocator"
  /\ Len(Es) = 3 /\ RoutedTo(Es[1]) = 1 /\ Decodes(Es[1], 1)
  /\ ~ProbeFails(Es[1]) /\ ProbeFails(Es[3])
  /\ result = "json: type map" /\ container = UsedContainer

\* All four discriminator keys of e are absent or empty.
NoTagKey(e) ==
  \A k \in 1..Len(TagKeys) : Get(e, TagKeys[k]) \in {JAbsent, JStr("")}

\* C10: the tag the default resolver reports for an element is the first
\* non-empty one of its keys type, @type, Type, @Type, and is empty only when
\* all four are; an element that is assigned goes to the field of that tag.
C10_TypeNamePriority ==
  /\ \A k \in Events({"skip", "decode", "decodeError"}) :
       LET e == Es[trace[k].pos + 1] IN
         /\ trace[k].tag = TagOf(e)
         /\ trace[k].tag = "" <=> NoTagKey(e)
  /\ \A k \in Events({"assign"}) :
       LET e == Es[trace[k].pos + 1] IN
         /\ FieldOfTag(TagOf(e)) # 0
         /\ trace[k].tag = TargetFields[FieldOfTag(TagOf(e))].name

\* An element without "type" whose "@type" and "Type" name different fields
\* has gone to the field "@type" names.
C10_Witness ==
  /\ pc = "done" /\ result = "nil" /\ Len(Es) = 1
  /\ Get(Es[1], "type") = JAbsent
  /\ Get(Es[1], "@type") = JStr("TypeInt")
  /\ Get(Es[1], "Type") = JStr("TypeString")
  /\ trace[Len(trace)] = Ev("assign", 0, "TypeInt")
  /\ container[3].ValueC = 105 /\ container[1] = pre[1]

\* The field an "assign" step names, and the tag a field answers to as its
\* declaration reads: the poly tag where there is one, the name otherwise.
FieldNamed(name) == CHOOSE n \in 1..NumField : TargetFields[n].name = name
HasPolyTag(n) == TargetFields[n].poly # NoTag
SlotTag(n) == IF HasPolyTag(n) THEN TargetFields[n].poly ELSE TargetFields[n].name

\* C11: an element is assigned to a field only when the tag the resolver
\* reports for it is that field's tag, the poly tag where the field has one
\* and the field's name otherwise; an element whose tag is the name of a
\* field that has a poly tag is assigned to no field.
C11_ExactSlotTag ==
  /\ \A k \in Events({"assign"}) :
       TagOf(Es[trace[k].pos + 1]) = SlotTag(FieldNamed(trace[k].tag))
  /\ InLoop =>
       \A q \in 1..i : \A n \in 1..NumField :
         (HasPolyTag(n) /\ ~Es[q].isNull /\ TagOf(Es[q]) = TargetFields[n].name
            /\ \A m \in 1..NumField : SlotTag(m) # TargetFields[n].name)
           => \E k \in Events({"skip"}) : trace[k].pos = q - 1

\* An element tagged with the name of the field that has a poly tag, stepped
\* over, and one tagged with that poly tag, appended to the field.
C11_Witness ==
  /\ pc = "done" /\ result = "nil" /\ Len(Es) = 2
  /\ TagOf(Es[1]) = "TypeBravo" /\ TagOf(Es[2]) = "TypeFloat"
  /\ trace[Len(trace)] = Ev("assign", 1, "TypeBravo")
  /\ \E k \in Events({"skip"}) : trace[k] = Ev("skip", 0, "TypeBravo")
  /\ container[2] = pre[2] \o << [ZeroStruct("TypeFloat") EXCEPT !.ValueB = 42] >>

\* The calls the encoding program has made so far.
FlattenDone(k) ==
  /\ stage \notin {"none", "new", "Unmarshal"}
  /\ k = "ptr" => stage # "Flatten(value)"
MarshalDone(k) ==
  /\ stage \in {"Marshal(value)", "Marshal(ptr)", "Unmarshal(bytes)"}
  /\ k = "ptr" => stage # "Marshal(value)"

\* The elements of the container in the order Flatten meets them, each with
\* its sort key.
Gathered == Gather(obj.fields, obj.val, Len(obj.fields))
Keys(g) == [j \in 1..Len(g) |-> g[j].obj.Index]

\* Where the j-th element met belongs: after every element with a smaller
\* key and after every element with the same key that was met before it.
StablePlaces(keys) ==
  [j \in DOMAIN keys |->
     1 + Cardinality({h \in DOMAIN keys :
                        keys[h] < keys[j] \/ (keys[h] = keys[j] /\ h < j)})]
\* The element met (its number) that stands at each place.
MetAt(keys) ==
  LET places == StablePlaces(keys)
  IN [p \in DOMAIN keys |-> CHOOSE j \in DOMAIN keys : places[j] = p]
StableOrder(g) ==
  LET met == MetAt(Keys(g)) IN [p \in 1..Len(g) |-> g[met[p]].obj.Value]

\* C12: what Flatten returns is the elements it met, over all fields, in
\* ascending order of key, and elements with equal keys (those without
\* GetIndex among them) in the order in which they were met.
C12_StableSortByKey ==
  LET g == Gathered
      keys == Keys(g)
      met == MetAt(keys)
      order == StableOrder(g)
  IN \A k \in PassKinds :
       FlattenDone(k) =>
         /\ ~flattened[k].panic
         /\ flattened[k].elems = order
         /\ \A p, q \in 1..Len(g) :
              p < q => /\ keys[met[p]] <= keys[met[q]]
                       /\ keys[met[p]] = keys[met[q]] => met[p] < met[q]

\* Two strings without GetIndex, and a struct and a pointer that both report
\* index 2: the struct comes before the pointer, the strings after both.
C12_Witness ==
  /\ stage = "Flatten(ptr)" /\ obj.fields = SlicesABC
  /\ Len(obj.val[1]) = 2 /\ obj.val[1][1].ValueA = "A" /\ obj.val[1][2].ValueA = "B"
  /\ obj.val[2] = <<>>
  /\ obj.val[3] = IntValue(23, 2) /\ obj.val[4] = <<IntValue(105, 2)>>
  /\ flattened["struct"].elems =
       << RValue(TRUE, obj.val[3]), RValue(TRUE, obj.val[4][1]),
          RValue(FALSE, obj.val[1][1]), RValue(FALSE, obj.val[1][2]) >>

\* Whether an element of Flatten's output reports an index through GetIndex.
ReportsIndex(x) == CanConvert(x)

\* C13 as claimed: in what Flatten returns no element without GetIndex comes
\* before an element that reports an index, whatever the indexes reported.
C13_AsClaimed ==
  \A k \in PassKinds :
    FlattenDone(k) =>
      \A p, q \in 1..Len(flattened[k].elems) :
        (p < q /\ ~ReportsIndex(flattened[k].elems[p]))
          => ~ReportsIndex(flattened[k].elems[q])

\* The places of the container that hold something other than the zero value
\* of their type: <<f, 0>> for a struct or pointer field, <<f, j>> for the
\* j-th element of a slice field.
SlotType(f) == obj.fields[f].type
NonZeroPlaces ==
  UNION { IF Kind(SlotType(f)) = "slice"
          THEN {<<f, j>> : j \in {h \in 1..Len(obj.val[f]) :
                                    obj.val[f][h] # Zero(Elem(SlotType(f)))}}
          ELSE IF obj.val[f] # Zero(SlotType(f)) THEN {<<f, 0>>} ELSE {} :
          f \in 1..Len(obj.fields) }

\* What a place holds, as Flatten's output shows it: the struct, and whether
\* behind a pointer (a struct field is copied behind a fresh one).
PlaceValue(e) ==
  LET T == SlotType(e[1])
      E == IF Kind(T) = "slice" THEN Elem(T) ELSE T
      x == IF Kind(T) = "slice" THEN obj.val[e[1]][e[2]] ELSE obj.val[e[1]]
  IN IF Kind(E) = "ptr" THEN RValue(TRUE, x[1])
     ELSE RValue(Kind(T) # "slice", x)

\* C14: what Flatten returns holds the non-zero values of the container and
\* nothing else, each as often as the container holds it: nothing for a
\* struct or pointer field that is zero, nothing for a zero element of a
\* slice, and none lost or doubled by the sort.
C14_ExactlyNonZero ==
  LET places == NonZeroPlaces
      values == {PlaceValue(e) : e \in places}
  IN \A k \in PassKinds :
       FlattenDone(k) =>
         LET out == flattened[k].elems IN
           /\ Len(out) = Cardinality(places)
           /\ \A p \in 1..Len(out) : out[p] \in values
           /\ \A x \in values :
                Cardinality({p \in 1..Len(out) : out[p] = x})
                  = Cardinality({e \in places : PlaceValue(e) = x})

\* A zero string before a non-zero one, a zero float before a non-zero one,
\* a zero struct and a nil pointer: two elements come out.
C14_Witness ==
  /\ stage = "Flatten(value)" /\ obj.fields = SlicesABC
  /\ obj.val[1] = << ZeroStruct("TypeString"),
                     [ZeroStruct("TypeString") EXCEPT !.ValueA = "A"] >>
  /\ Len(obj.val[2]) = 2 /\ obj.val[2][1] = ZeroStruct("TypeFloat")
  /\ obj.val[3] = ZeroStruct("TypeInt") /\ obj.val[4] = <<>>
  /\ flattened["struct"].elems =
       << RValue(FALSE, obj.val[1][2]), RValue(FALSE, obj.val[2][2]) >>

\* The JSON keys a variant's own exported fields encode to.
OwnKeys(ty) ==
  IF ty = "TypeString" THEN {"ValueA"}
  ELSE IF ty = "TypeFloat" THEN {"ValueB"}
  ELSE IF ty = "Item" THEN {"type", "ValueC"}
  ELSE {"ValueC"}

\* C15 as claimed: for every container, one with nothing in it too, what
\* Marshal returns is a JSON array with one entry for each element Flatten
\* returns, in that order, each entry the encoding of the element's own
\* exported fields and of nothing else.
C15_AsClaimed ==
  \A k \in PassKinds :
    MarshalDone(k) =>
      LET out == marshalled[k].bytes
          objs == Flatten(k, obj).elems
      IN /\ ~marshalled[k].panic
         /\ out.kind = "array"
         /\ Len(out.elems) = Len(objs)
         /\ \A p \in 1..Len(out.elems) :
              /\ ~out.elems[p].isNull
              /\ DOMAIN out.elems[p].fields = OwnKeys(objs[p].v.ty)
              /\ out.elems[p] = MarshalStruct(objs[p].v)

\* A container's content with the index fields left out of account.
WithoutIndex(T, x) ==
  IF Kind(T) = "struct" THEN [x EXCEPT !.index = 0]
  ELSE IF x = <<>> THEN <<>>
  ELSE << [x[1] EXCEPT !.index = 0] >>
Content(fields, val) ==
  [f \in 1..Len(fields) |->
     IF Kind(fields[f].type) = "slice"
     THEN [j \in 1..Len(val[f]) |-> WithoutIndex(Elem(fields[f].type), val[f][j])]
     ELSE WithoutIndex(fields[f].type, val[f])]

\* Every value the container holds names, in its own type field, the tag of
\* the slot that holds it: every slice element, every struct that is not
\* zero, every pointer that is not nil.
CarriesTags ==
  /\ obj.fields = ItemSlots
  /\ \A f \in 1..Len(obj.fields) :
       LET T == SlotType(f) IN
         IF Kind(T) = "slice"
         THEN \A j \in 1..Len(obj.val[f]) :
                /\ obj.val[f][j] # Zero(Elem(T))
                /\ PlaceValue(<<f, j>>).v.Type = FieldTypeName(obj.fields[f])
         ELSE obj.val[f] # Zero(T) =>
                PlaceValue(<<f, 0>>).v.Type = FieldTypeName(obj.fields[f])

\* C16 as claimed: the bytes Marshal returns for a container whose values
\* carry their tags decode, into a fresh container, to the content of every
\* slot of the first, index fields apart.
C16_AsClaimed ==
  (stage = "Unmarshal(bytes)" /\ CarriesTags) =>
    /\ back.result = "nil"
    /\ Content(obj.fields, back.container) = Content(obj.fields, obj.val)

\* The sort keys of the elements of each slice do not fall along the slice.
SlicesInKeyOrder ==
  \A f \in 1..Len(obj.fields) :
    Kind(SlotType(f)) = "slice" =>
      \A h, j \in 1..Len(obj.val[f]) :
        (h < j /\ obj.val[f][h] # Zero(Elem(SlotType(f)))
               /\ obj.val[f][j] # Zero(Elem(SlotType(f)))) =>
          IndexedObjectForValue(PlaceValue(<<f, h>>)).obj.Index
            <= IndexedObjectForValue(PlaceValue(<<f, j>>)).obj.Index

\* C16: the bytes Marshal returns for a container whose values carry their
\* tags, and whose slices hold their elements in ascending order of sort
\* key, decode into a fresh container to the content of every slot of the
\* first, index fields apart; without that order the slice comes back in
\* the order of the keys.
C16_RoundTrip ==
  (stage = "Unmarshal(bytes)" /\ CarriesTags) =>
    /\ back.result = "nil"
    /\ SlicesInKeyOrder =>
         Content(obj.fields, back.container) = Content(obj.fields, obj.val)
    /\ \A f \in 1..Len(obj.fields) :
         Kind(SlotType(f)) # "slice" =>
           Content(obj.fields, back.container)[f] = Content(obj.fields, obj.val)[f]

\* A container with something in each of its four slots, the pointers of
\* its slice in ascending order of index, and all of it back.
C16_Witness ==
  /\ stage = "Unmarshal(bytes)" /\ CarriesTags /\ SlicesInKeyOrder
  /\ input = JRaw("nil")
  /\ Len(obj.val[1]) = 1
  /\ obj.val[2] = << <<ItemValue("itemp", 2, 0)>>, <<ItemValue("itemp", 1, 1)>> >>
  /\ obj.val[3] # ZeroStruct("Item") /\ obj.val[4] # <<>>
  /\ marshalled["struct"].bytes.kind = "array"
  /\ Len(marshalled["struct"].bytes.elems) = 5
  /\ Content(obj.fields, back.container) = Content(obj.fields, obj.val)

\* The program decoded an array into a container all of whose variants have
\* SetIndex and GetIndex.
DecodedIndexable ==
  /\ input.kind = "array" /\ obj.fields = ItemSlots
  /\ \A f \in 1..Len(obj.fields) :
       {"SetIndex", "GetIndex"} \subseteq
         PtrMethods(SlotType(f)[Len(SlotType(f))])

\* C17 as claimed: after an array is decoded into a container all of whose
\* variants have SetIndex and GetIndex, Flatten returns every value the
\* container holds, and returns them in the order of the array positions
\* they were decoded from, whatever kind of slot holds them.
C17_AsClaimed ==
  \A k \in PassKinds :
    (FlattenDone(k) /\ DecodedIndexable) =>
      LET out == flattened[k].elems IN
        /\ Len(out) = Cardinality(NonZeroPlaces)
        /\ \A p, q \in 1..Len(out) : p < q => out[p].v.index < out[q].v.index

\* C18: Flatten returns the same objects, and Marshal the same bytes, for a
\* container passed by value and for a pointer to it, and neither call
\* panics.
C18_ValueOrPointer ==
  /\ FlattenDone("ptr") =>
       ~flattened["ptr"].panic /\ flattened["ptr"] = flattened["struct"]
  /\ MarshalDone("ptr") =>
       ~marshalled["ptr"].panic /\ marshalled["ptr"] = marshalled["struct"]

\* The container of TestMarshalPoly (one float less), marshalled both ways
\* to the five entries the test expects.
C18_Witness ==
  /\ stage = "Marshal(ptr)" /\ obj.fields = SlicesABC
  /\ Len(obj.val[1]) = 2 /\ obj.val[1][1].ValueA = "A" /\ obj.val[1][2].ValueA = "B"
  /\ Len(obj.val[2]) = 1
  /\ obj.val[3] = IntValue(23, 2) /\ obj.val[4] = <<IntValue(105, 1)>>
  /\ marshalled["ptr"].bytes =
       JArray(<< JObj("ValueC" :> JNum(105)), JObj("ValueC" :> JNum(23)),
                 JObj("ValueA" :> JStr("A")), JObj("ValueA" :> JStr("B")),
                 JObj("ValueB" :> JNum(42)) >>)
  /\ marshalled["struct"].bytes = marshalled["ptr"].bytes

\* No value the container holds reports an index to Flatten.
NoneReportsIndex == \A e \in NonZeroPlaces : ~ReportsIndex(PlaceValue(e))

\* Where a place stands when the places are read field by field in the
\* order of declaration and, within a slice, element by element.
PlaceBefore(d, e) == d[1] < e[1] \/ (d[1] = e[1] /\ d[2] < e[2])
PlaceRank(places, e) == 1 + Cardinality({d \in places : PlaceBefore(d, e)})

\* The elements of the decoded array meant for the two slices of SlicesABC,
\* and where each stands when they are grouped by field.
SliceTags == <<"TypeString", "TypeFloat">>
ForSlice(f) == {n \in 1..Len(input.elems) : TagOf(input.elems[n]) = SliceTags[f]}
GroupRank(f, n) ==
  1 + Cardinality({m \in ForSlice(f) : m < n})
    + (IF f = 2 THEN Cardinality(ForSlice(1)) ELSE 0)

\* C20: when no value reports an index, Flatten returns the values field by
\* field in the order the fields are declared, the elements of a slice in
\* the order the slice holds them; for a container decoded from an array
\* that is the elements for the first field in array order, then those for
\* the second, however the array mixed them.
C20_DeclarationOrder ==
  LET places == NonZeroPlaces IN
  \A k \in PassKinds :
    (FlattenDone(k) /\ NoneReportsIndex) =>
      LET out == flattened[k].elems IN
        /\ Len(out) = Cardinality(places)
        /\ \A e \in places : out[PlaceRank(places, e)] = PlaceValue(e)
        /\ (input.kind = "array" /\ obj.fields = SlicesABC) =>
             /\ Len(out) = Cardinality(ForSlice(1)) + Cardinality(ForSlice(2))
             /\ \A n \in ForSlice(1) :
                  out[GroupRank(1, n)].v.ValueA = Get(input.elems[n], "ValueA").s
             /\ \A n \in ForSlice(2) :
                  out[GroupRank(2, n)].v.ValueB = Get(input.elems[n], "ValueB").n

\* An array with a float before a string: the string comes out first.
C20_Witness ==
  /\ stage = "Flatten(value)" /\ obj.fields = SlicesABC /\ input.kind = "array"
  /\ Len(input.elems) = 2
  /\ TagOf(input.elems[1]) = "TypeFloat" /\ TagOf(input.elems[2]) = "TypeString"
  /\ NoneReportsIndex
  /\ flattened["struct"].elems =
       << RValue(FALSE, [ZeroStruct("TypeString") EXCEPT !.ValueA = "x"]),
          RValue(FALSE, [ZeroStruct("TypeFloat") EXCEPT !.ValueB = 42]) >>

\* A call as it was made, and the same call run alone to its return.
AsMade(s) == Call(s.op, s.rawJson, s.target, s.typeLocator, s.fields, s.pre)
Alone(s) == Run(AsMade(s))

\* C19: of two calls that run side by side on containers of their own, each
\* is at every moment on the way to the return it has when run alone, and
\* when it has returned its container, its result and its bytes are those
\* of the call run alone, whatever the other call has done meanwhile.
C19_AsIfAlone ==
  \A p \in DOMAIN calls :
    LET alone == Alone(calls[p]) IN
      /\ Run(calls[p]) = alone
      /\ calls[p].pc = "done" =>
           /\ calls[p].container = alone.container
           /\ calls[p].result = alone.result
           /\ calls[p].bytes = alone.bytes

\* Both calls in the middle of their loops at once, the first about to
\* assign its second element, the second about to index its second, each
\* with its first element already in its own container.
C19_Witness ==
  /\ Len(calls) = 2
  /\ calls[1].op = "Unmarshal" /\ calls[2].op = "Unmarshal"
  /\ calls[1].pc = "assign" /\ calls[1].i = 1
  /\ calls[2].pc = "setIndex" /\ calls[2].i = 1
  /\ calls[1].container # calls[1].pre /\ calls[2].container # calls[2].pre
  /\ calls[1].rawJson # calls[2].rawJson
  /\ calls[1].container # calls[2].container

\* Whether a variant type declares GetIndex, on either receiver.
DefinesGetIndex(ty) == "GetIndex" \in PtrMethods(ty) \cup ValueMethods(ty)

\* C21 as claimed: every value Flatten meets whose variant type declares
\* GetIndex, in a struct field, behind a pointer or in a slice of either,
\* gets as its sort key the index it reports.
C21_AsClaimed ==
  LET g == Gathered IN
  \A k \in PassKinds :
    FlattenDone(k) =>
      \A j \in 1..Len(g) :
        DefinesGetIndex(g[j].obj.Value.v.ty) =>
          g[j].obj.Index = GetIndex(g[j].obj.Value.v)

\* The one call of a specification that runs a single call.
TheCall == calls[1]

\* Fields that share their type name with a field declared later, and the
\* last field declared with the type name t.
Shadowed(fields) ==
  {f \in 1..Len(fields) :
     \E g \in (f + 1)..Len(fields) :
       FieldTypeName(fields[g]) = FieldTypeName(fields[f])}
LastDeclared(fields, t) ==
  CHOOSE g \in 1..Len(fields) :
    /\ FieldTypeName(fields[g]) = t
    /\ \A h \in (g + 1)..Len(fields) : FieldTypeName(fields[h]) # t

\* The array positions (1-based) among the first n whose element has tag t.
Tagged(s, t, n) == {q \in 1..n : TagOf(s.rawJson.elems[q]) = t}
\* The q-th of a set of positions, in ascending order.
Nth(set, q) == CHOOSE p \in set : Cardinality({h \in set : h < p}) = q - 1

\* C22: two fields with one type name are no error: the map holds the field
\* declared last under that name; the field declared earlier is at every
\* step as it was before the call; and every element with that name that
\* the loop has passed is in the later field, appended in array order with
\* its own payload and position when that field is a slice, the last of
\* them when it is a pointer.
C22_LaterSlotWins ==
  Len(calls) = 1 =>
    LET s == TheCall
        later == LastDeclared(s.fields, "dup")
        done == Tagged(s, "dup", s.i)
    IN /\ s.pc \notin {"call", "makeTargetFieldLookup"} =>
            /\ s.result \in {"", "nil"}
            /\ s.targetFields["dup"] = FieldLookupOf(s.fields, later)
       /\ \A f \in Shadowed(s.fields) : s.container[f] = s.pre[f]
       /\ s.pc \in {"loop", "done"} =>
            IF Kind(s.fields[later].type) = "slice"
            THEN /\ Len(s.container[later]) = Len(s.pre[later]) + Cardinality(done)
                 /\ \A q \in 1..Cardinality(done) :
                      LET x == s.container[later][Len(s.pre[later]) + q][1]
                          p == Nth(done, q)
                      IN /\ x.ValueC = Get(s.rawJson.elems[p], "ValueC").n
                         /\ x.index = p - 1
            ELSE IF done = {} THEN s.container[later] = s.pre[later]
            ELSE LET p == Nth(done, Cardinality(done))
                 IN /\ s.container[later][1].ValueC = Get(s.rawJson.elems[p], "ValueC").n
                    /\ s.container[later][1].index = p - 1

\* Two elements named dup around one named after the earlier field: both
\* are behind the pointers of the later slice, the earlier slice still
\* holds the one string it held.
C22_Witness ==
  /\ Len(calls) = 1 /\ TheCall.pc = "done" /\ TheCall.result = "nil"
  /\ TheCall.fields = DupSlices /\ Len(TheCall.rawJson.elems) = 3
  /\ TagOf(TheCall.rawJson.elems[1]) = "dup"
  /\ TagOf(TheCall.rawJson.elems[2]) = "First"
  /\ TagOf(TheCall.rawJson.elems[3]) = "dup"
  /\ Len(TheCall.pre[1]) = 1 /\ TheCall.container[1] = TheCall.pre[1]
  /\ Len(TheCall.container[3]) = Len(TheCall.pre[3]) + 2
  /\ TheCall.container[3][3][1].index = 2

\* C23 as claimed: a call with non-empty input whose target points to
\* something that is not a struct returns an error, as a call whose target
\* is no pointer does, and leaves the container alone.
C23_AsClaimed ==
  (pc = "done" /\ RawLen(rawJson) > 0 /\ target = "ptrNonStruct") =>
    IsError(result) /\ container = pre

\* The call is in its loop, or has returned from it.
Looping == pc \in {"loop", "setIndex", "assign"} \/ (pc = "done" /\ InLoop)

\* C24: once both parses are done the probes and the sub-documents are as
\* many as the array has elements; the sub-document at each position is the
\* element at that position and the probe there was decoded from that same
\* element (nil for null, else reporting the element's tag); every position
\* the loop visits has a sub-document, and what the loop decodes at a
\* position is decoded from the element at that position.
C24_SameLength ==
  /\ Looping =>
       /\ Len(subTypesSlice) = Len(subJSONs)
       /\ Len(subJSONs) = Len(Es)
       /\ i \in 0..Len(subJSONs)
       /\ \A k \in 1..Len(Es) :
            /\ subJSONs[k] = Es[k]
            /\ subTypesSlice[k] = <<>> <=> Es[k].isNull
            /\ subTypesSlice[k] # <<>> => TypeName(subTypesSlice[k][1]) = TagOf(Es[k])
  /\ \A k \in Events(ElementOps) :
       /\ trace[k].pos + 1 \in DOMAIN subJSONs
       /\ trace[k].pos + 1 \in DOMAIN subTypesSlice
  /\ pc = "setIndex" =>
       /\ i + 1 \in DOMAIN subJSONs
       /\ newSub[1] = UnmarshalStruct(Es[i + 1], Zero(fl.fieldType)).val
       /\ fl = targetFields[TagOf(Es[i + 1])]

\* A null between two elements that are assigned: three probes and three
\* sub-documents, and the loop stopped at the null, in the middle.
C24_Witness ==
  /\ pc = "done" /\ InLoop /\ Len(Es) = 3
  /\ RoutedTo(Es[1]) = 1 /\ Es[2].isNull /\ RoutedTo(Es[3]) = 3
  /\ Len(subTypesSlice) = 3 /\ Len(subJSONs) = 3
  /\ subTypesSlice[2] = <<>> /\ subJSONs[3] = Es[3]
  /\ i = 1

\* Whether the element at offset pos is meant for a field whose variant has
\* SetIndex.
IndexableAt(pos) == RoutedTo(Es[pos + 1]) # 0 /\ Indexable(RoutedTo(Es[pos + 1]))

\* C25: for an element that has a field the call decodes the sub-document,
\* then calls SetIndex (when the variant has it), then assigns, with nothing
\* in between: SetIndex comes right after the successful decode of the same
\* element and right before its assignment; it is never called for an
\* element that was skipped or failed to decode; and the value on its way
\* to the field, and the value in the field after the assignment, carry the
\* element's offset.
C25_DecodeIndexAssign ==
  /\ \A k \in Events({"SetIndex"}) :
       /\ k > 1 /\ trace[k - 1].op = "decode" /\ trace[k - 1].pos = trace[k].pos
       /\ Decodes(Es[trace[k].pos + 1], RoutedTo(Es[trace[k].pos + 1]))
       /\ k < Len(trace) => trace[k + 1].op = "assign" /\ trace[k + 1].pos = trace[k].pos
  /\ \A k \in Events({"decode"}) :
       k < Len(trace) =>
         /\ trace[k + 1].op = IF IndexableAt(trace[k].pos) THEN "SetIndex" ELSE "assign"
         /\ trace[k + 1].pos = trace[k].pos
  /\ \A k \in Events({"assign"}) :
       /\ k > 1 /\ trace[k - 1].pos = trace[k].pos
       /\ trace[k - 1].op = IF IndexableAt(trace[k].pos) THEN "SetIndex" ELSE "decode"
  /\ \A k \in Events({"skip", "decodeError", "nilReceiver"}) :
       \A h \in Events({"SetIndex", "assign"}) : trace[h].pos # trace[k].pos
  /\ (pc = "assign" /\ IndexableAt(i)) => newSub[1].index = i
  /\ (trace # <<>> /\ trace[Len(trace)].op = "assign"
        /\ IndexableAt(trace[Len(trace)].pos)) =>
       LET f == RoutedTo(Es[trace[Len(trace)].pos + 1])
       IN Struct(container[f], f).index = trace[Len(trace)].pos

\* A skipped element, then an element for the pointer field decoded,
\* indexed with 1 and assigned, in that order, then one that fails to
\* decode.
C25_Witness ==
  /\ pc = "done" /\ result = "json: sub object" /\ Len(Es) = 3
  /\ Skippable(Es[1]) /\ RoutedTo(Es[2]) = 4 /\ FirstFailing = 3
  /\ Len(trace) = 8
  /\ trace[5] = Ev("decode", 1, "TypeIntP")
  /\ trace[6] = Ev("SetIndex", 1, "TypeInt")
  /\ trace[7] = Ev("assign", 1, "TypeIntP")
  /\ trace[8].op = "decodeError"
  /\ container[4][1].index = 1

\* Whether the sequence a begins with the sequence b.
StartsWith(a, b) == Len(a) >= Len(b) /\ SubSeq(a, 1, Len(b)) = b

\* The elements of the array (1-based positions) that are assigned to field
\* f when the call runs through.
MeantFor(f) == {q \in 1..Len(Es) : RoutedTo(Es[q]) = f}

\* C26: the call never empties or resets the container: at every step each
\* slice field begins with what it held before the call, and what follows
\* is what the array's elements for that field decode to, in order; and a
\* field, slice or not, for which the array holds no element is at every
\* step what it was before the call.
C26_NeverResets ==
  \A f \in 1..NumField :
    /\ IsSliceField(f) =>
         /\ StartsWith(container[f], pre[f])
         /\ Len(container[f]) <= Len(pre[f]) + Cardinality(MeantFor(f))
         /\ (pc = "done" /\ result = "nil" /\ InLoop) =>
              /\ Len(container[f]) = Len(pre[f]) + Cardinality(MeantFor(f))
              /\ SubSeq(container[f], Len(pre[f]) + 1, Len(container[f]))
                   = ValuesFor(f, Len(Es))
    /\ (rawJson.kind # "array" \/ MeantFor(f) = {}) => container[f] = pre[f]

\* A filled container and an array with a string and an element for the
\* struct field: the slice of strings holds the old string and then the new
\* one, the empty slice and the pointer are as they were.
C26_Witness ==
  /\ pc = "done" /\ result = "nil" /\ pre = UsedContainer /\ Len(Es) = 2
  /\ RoutedTo(Es[1]) = 3 /\ RoutedTo(Es[2]) = 1
  /\ Len(container[1]) = 2 /\ container[1][1] = UsedContainer[1][1]
  /\ container[1][2].ValueA = Get(Es[2], "ValueA").s
  /\ container[2] = <<>> /\ container[4] = UsedContainer[4]
  /\ container[3] # UsedContainer[3]

\* C27: the test for empty input comes first: a call with nil or
\* zero-length input returns nil, with no helper run, whatever the target
\* and the resolver type are; with input that is not empty a target that is
\* no pointer is reported whatever the resolver type and the input are, then
\* an unsuitable resolver type whatever the input is, and only then input
\* that does not parse; the helpers run in that order.
C27_OrderOfChecks ==
  /\ (pc = "done" /\ RawLen(rawJson) = 0) =>
       result = "nil" /\ trace = <<>> /\ container = pre
  /\ (pc = "done" /\ RawLen(rawJson) > 0 /\ target = "value") =>
       result = "target must be a pointer" /\ Len(trace) = 1
  /\ (pc = "done" /\ RawLen(rawJson) > 0 /\ target = "ptr"
        /\ typeLocator = "string") =>
       result = "typeLocator not assignable to a TypeLocator" /\ Len(trace) = 2
  /\ (pc = "done" /\ RawLen(rawJson) > 0 /\ target = "ptr"
        /\ typeLocator = "GenericTypeLocator"
        /\ (rawJson.kind \in {"invalid", "object"} \/ HasFailingProbe)) =>
       result = "json: type map" /\ Len(trace) = 2
  /\ Len(trace) >= 1 => trace[1].op = "makeTargetFieldLookup"
  /\ Len(trace) >= 2 => trace[2].op = "unmarshallTypeMap"
  /\ Len(trace) >= 3 => trace[3].op = "unmarshallSubArrays"

\* Zero-length input, a struct passed by value and reflect.TypeOf("") as
\* resolver type: nil.
C27_Witness ==
  /\ pc = "done" /\ rawJson.kind = "empty"
  /\ target = "value" /\ typeLocator = "string"
  /\ result = "nil" /\ trace = <<>>

\* C28 as claimed: a call with a pointer to the container, the default
\* resolver type and a well-formed array as input returns nil or an error,
\* and does not panic, also when the array holds a null.
C28_AsClaimed ==
  (pc = "done" /\ target = "ptr" /\ typeLocator = "GenericTypeLocator"
     /\ rawJson.kind = "array") =>
    result = "nil" \/ IsError(result)

\* C29: what Flatten returns is what the stable sort by key gives for the
\* values it met, whether it sorted or not: when some value reports an index
\* the output is in the stable order of the keys, and when none does, and
\* the sort is left out, the output is the values in the order they were
\* met, which is the order the sort would have left them in.
C29_ShortcutIsSound ==
  LET g == Gathered
      sorted == SortSliceStable(g)
      some == \E j \in 1..Len(g) : ReportsIndex(g[j].obj.Value)
  IN \A k \in PassKinds :
       FlattenDone(k) =>
         /\ flattened[k].elems = [p \in 1..Len(g) |-> sorted[p].obj.Value]
         /\ flattened[k].elems = StableOrder(g)
         /\ NeedToSort(g) <=> some
         /\ some => \A p, q \in 1..Len(g) : p < q => ~Less(sorted[q], sorted[p])
         /\ ~some => /\ flattened[k].elems = [p \in 1..Len(g) |-> g[p].obj.Value]
                     /\ sorted = g

\* Two strings and a float, none of which reports an index: the sort is
\* left out and the three come out as they were met.
C29_Witness ==
  /\ stage = "Flatten(ptr)" /\ obj.fields = SlicesABC /\ NoneReportsIndex
  /\ Len(obj.val[1]) = 2 /\ obj.val[1][1].ValueA = "B" /\ obj.val[1][2].ValueA = "A"
  /\ Len(obj.val[2]) = 1
  /\ ~NeedToSort(Gathered)
  /\ flattened["ptr"].elems =
       << RValue(FALSE, obj.val[1][1]), RValue(FALSE, obj.val[1][2]),
          RValue(FALSE, obj.val[2][1]) >>

\* Every place of the container, zero or not, and whether a place holds its
\* variant behind a pointer.
AllPlaces ==
  UNION { IF Kind(SlotType(f)) = "slice"
          THEN {<<f, j>> : j \in 1..Len(obj.val[f])}
          ELSE {<<f, 0>>} : f \in 1..Len(obj.fields) }
ByReference(e) ==
  Kind(IF Kind(SlotType(e[1])) = "slice" THEN Elem(SlotType(e[1]))
       ELSE SlotType(e[1])) = "ptr"
Held(e) == IF e[2] = 0 THEN obj.val[e[1]] ELSE obj.val[e[1]][e[2]]
VariantAt(e) == SlotType(e[1])[Len(SlotType(e[1]))]

\* A place is left out when its pointer is nil, or, held by value, when all
\* fields of its variant are zero.
LeftOut(e) ==
  IF ByReference(e) THEN Held(e) = <<>>
  ELSE Held(e) = ZeroStruct(VariantAt(e))

\* C30: Flatten leaves out a pointer, in a field or in a slice, only when
\* it is nil, and a variant held by value when all its fields are zero: the
\* output has one element for every other place; a pointer to a variant
\* whose fields are all zero comes out, as often as the container holds
\* one, and a variant held by value whose fields are all zero never does.
C30_ZeroTestByOwnership ==
  LET places == AllPlaces
      kept == {e \in places : ~LeftOut(e)}
      zeroRefs == {e \in places : ByReference(e) /\ Held(e) # <<>>
                                    /\ Held(e)[1] = ZeroStruct(VariantAt(e))}
  IN \A k \in PassKinds :
       FlattenDone(k) =>
         LET out == flattened[k].elems IN
           /\ Len(out) = Cardinality(kept)
           /\ Cardinality({p \in 1..Len(out) : out[p].v = ZeroStruct(out[p].v.ty)})
                = Cardinality(zeroRefs)
           /\ \A p \in 1..Len(out) :
                out[p].v = ZeroStruct(out[p].v.ty) => out[p].ptr
           /\ \A e \in kept : \E p \in 1..Len(out) : out[p] = PlaceValue(e)

\* A zero Item in the slice of values and in the struct field, a nil
\* pointer and a pointer to a zero Item in the slice of pointers and a
\* pointer to a zero Item in the pointer field: the two pointers come out,
\* with the one Item of the slice of values that is not zero.
C30_Witness ==
  /\ stage = "Flatten(value)" /\ obj.fields = ItemSlots
  /\ obj.val[1] = << ZeroStruct("Item"), ItemValue("item", 1, 1) >>
  /\ obj.val[2] = << <<>>, <<ZeroStruct("Item")>> >>
  /\ obj.val[3] = ZeroStruct("Item")
  /\ obj.val[4] = <<ZeroStruct("Item")>>
  /\ flattened["struct"].elems =
       << RValue(TRUE, ZeroStruct("Item")), RValue(TRUE, ZeroStruct("Item")),
          RValue(FALSE, ItemValue("item", 1, 1)) >>
====
